---- MODULE Spec2Model ----
(***************************************************************************)
(* Model of the polymarket-palsy market-making bot.                        *)
(*                                                                         *)
(*   Part I   dashboard driver      src/src/hooks/useBotState.ts           *)
(*   Part II  headless driver       src/src/components/bot/StatsPanel.tsx  *)
(*   Part III edge function         src/supabase/functions/polymarket-api  *)
(*                                                                         *)
(* Each part has its own specifications (SpecDash, SpecDashClock;          *)
(* SpecHeadless; SpecStore, SpecPaper, SpecLive, SpecQuote, SpecReconcile, *)
(* SpecFills, SpecSelect, SpecOracle, SpecUpserts, SpecMixed, SpecHistory, *)
(* SpecErrors and SpecClient for the edge function);                       *)
(* the variables of the other parts stay at their initial values.          *)
(* JavaScript runs handlers to completion: one action is the code between  *)
(* two awaits of a handler (a macrotask), never less.                      *)
(***************************************************************************)
EXTENDS Integers, Sequences, FiniteSets, TLC

(***************************************************************************)
(* Bounds                                                                  *)
(***************************************************************************)
\* Date.now() (seconds) at which the model's clock stops
MaxClock == 40
\* overlap warnings logged before the model stops
MaxWarnings == 3
\* concurrent startBot invocations (a second click while the first awaits)
MaxStarts == 2
\* concurrent stopBot invocations
MaxStops == 1
\* run_cycle requests a broken overlap guard may pile up before the model stops counting
MaxCalls == 2
\* interval timers that lost their handle (intervalRef overwritten); the count saturates
MaxLeaked == 2

\* runCycle executions of the headless bot that may be active at once
MaxHeadCycles == 2
\* cycles the headless bot starts before the model stops (cycleCount is unbounded)
MaxCycleCount == 4
\* simulated fills the headless bot books per day before the model stops
MaxHeadTrades == 3

StartIds == 1..MaxStarts
StopIds == 1..MaxStops

Min(a, b) == IF a <= b THEN a ELSE b
Max(a, b) == IF a >= b THEN a ELSE b

VARIABLES
  \* ---- Part I: useBotState ----
  cycleInFlightRef,   \* useRef(false): the overlap flag
  intervalRef,        \* TRUE iff intervalRef.current holds a live timer id
  leakedTimers,       \* live setInterval timers no ref points to any more
  isRunning,          \* useState
  isConnected,        \* useState
  circuitBreaker,     \* useState
  startPc,            \* per startBot invocation: "idle" | "connect" | "cycle"
  stopPc,             \* per stopBot invocation: "idle" | "cancel"
  connectCalls,       \* derive_creds requests in flight from the connect button
  tickCalls,          \* run_cycle requests in flight that were started by a timer tick
  lastOutcome,        \* how the last settled run_cycle request ended: "none" | "ok" | "breaker" | "error"
  stopCompleted,      \* history: a stopBot has completed and startBot was not invoked since
  now,                \* Date.now(), in seconds
  lastOverlapLogAtRef,\* useRef(0): Date.now() of the last overlap warning
  warnedAt            \* history: the times the overlap warning was logged at, in order

VARIABLES
  \* ---- Part II: headless bot (Railway edition) ----
  hMainPc,        \* main(): "init" | "balance" | "firstCycle" | "scheduled" | "exited"
  hCyclePc,       \* per runCycle execution slot: "idle" | "balance" | "fetch" | "enrich" | "orders" | "quote"
  hCycleCount,    \* let cycleCount
  hDailyPnl,      \* let dailyPnl = {realized, trades, circuitBreaker} (date: see hDateStale)
  hDateStale,     \* TRUE iff dailyPnl.date is no longer today's date
  hPaper          \* IS_PAPER (process environment)

VARIABLES
  \* ---- Part III: edge function, its database and the venue ----
  markets,        \* the Gamma catalogue with each market's CLOB book (environment)
  dailyRow,       \* bot_daily_pnl: the row of today's UTC date
  positions,      \* bot_positions: net_position per market
  venue,          \* the engine's open orders at the CLOB
  nextOrderId,    \* the id the venue gives the next accepted order
  req,            \* per request slot: the run_cycle handler's position and locals
  cyclesBegun,    \* run_cycle requests received so far
  latched,        \* history: today's row has had circuit_breaker_triggered = true
  submitted       \* history: the orders sent to createAndPostOrder

VARIABLES
  \* ---- Part IV: the edge function's other handlers and its process ----
  dayRows,        \* bot_daily_pnl: the number of dates that have a row (dates 1..dayRows)
  pnlHistory,     \* the last get_pnl_history response, with the row count it was read at
  errorLog,       \* the values caught so far, each with what getErrorMessage made of it
  tally,          \* history, kept where a specification asks for it: the positions it
                  \* started from and, per market, the sum of the deltas whose upsert
                  \* updateNetPosition has had served
  cachedClient,   \* let cachedClient: null (0) or the ClobClient instance it holds
  clientsBuilt,   \* history: main ClobClient instances constructed so far
  clientPc,       \* per caller of getTradingClient: "idle" | "derive"
  client,         \* per caller: `const client`, the instance its last call returned
  clientCalls     \* getTradingClient calls made so far

srvVars == <<markets, dailyRow, positions, venue, nextOrderId, req, cyclesBegun, latched,
             submitted>>

headVars == <<hMainPc, hCyclePc, hCycleCount, hDailyPnl, hDateStale, hPaper>>

dashVars == <<cycleInFlightRef, intervalRef, leakedTimers, isRunning, isConnected,
              circuitBreaker, startPc, stopPc, connectCalls, tickCalls, lastOutcome,
              stopCompleted, now, lastOverlapLogAtRef, warnedAt>>

clockVars == <<now, lastOverlapLogAtRef, warnedAt>>

clientVars == <<cachedClient, clientsBuilt, clientPc, client, clientCalls>>

edgeVars == <<dayRows, pnlHistory, errorLog, tally, clientVars>>

\* what the actions of one part leave alone: the variables of the other parts
DashFrame == UNCHANGED <<headVars, srvVars, edgeVars>>
HeadFrame == UNCHANGED <<dashVars, srvVars, edgeVars>>
SrvFrame == UNCHANGED <<dashVars, headVars, edgeVars>>
EdgeFrame == UNCHANGED <<dashVars, headVars, srvVars>>

(***************************************************************************)
(* Part I. Dashboard driver (useBotState.ts)                               *)
(***************************************************************************)
Outcomes == {"ok", "breaker", "error"}
\* Date.now() when the page is loaded, in seconds (any time later than 15 s after the
\* epoch behaves alike)
PageLoad == 20

InitDash ==
  /\ cycleInFlightRef = FALSE
  /\ intervalRef = FALSE
  /\ leakedTimers = 0
  /\ isRunning = FALSE
  /\ isConnected = FALSE
  /\ circuitBreaker = FALSE
  /\ startPc = [s \in StartIds |-> "idle"]
  /\ stopPc = [t \in StopIds |-> "idle"]
  /\ connectCalls = 0
  /\ tickCalls = 0
  /\ lastOutcome = "none"
  /\ stopCompleted = FALSE
  /\ now = PageLoad
  /\ lastOverlapLogAtRef = 0
  /\ warnedAt = <<>>

\* run_cycle requests of this dashboard that have not settled yet
StartCycleCalls == Cardinality({s \in StartIds : startPc[s] = "cycle"})
InFlightCount == tickCalls + StartCycleCalls

\* some setInterval timer is live and may fire
TimerActive == intervalRef \/ leakedTimers > 0

\* the warning logged again from 15 seconds after the last one (>= for >)
OverlapWarningDueAtFifteen == now - lastOverlapLogAtRef >= 15
\* runCycle line 193: `if (now - lastOverlapLogAtRef.current > 15000)`
OverlapWarningDue == now - lastOverlapLogAtRef > 15

\* runCycle lines 191-198, the guard taken: the warning is logged if it is due; return
OverlapSkipped ==
  IF OverlapWarningDue
  THEN /\ Len(warnedAt) < MaxWarnings
       /\ warnedAt' = Append(warnedAt, now)
       /\ lastOverlapLogAtRef' = now
  ELSE UNCHANGED <<lastOverlapLogAtRef, warnedAt>>

\* a guard that lets every invocation through
OverlapGuardOff == FALSE
\* runCycle line 191: `if (cycleInFlightRef.current) { ...; return; }`
OverlapGuard == cycleInFlightRef

\* the flag is released at the end of the try block only, so a thrown error keeps it
FlagAfterSettleNoFinally(outcome) == outcome = "error"
\* runCycle lines 250-252: `finally { cycleInFlightRef.current = false; }`
FlagAfterSettle(outcome) == FALSE

\* intervalRef.current after `if (data.circuitBreaker) { clearInterval(...); = null }`
RefAfterResponse(outcome) == IF outcome = "breaker" THEN FALSE ELSE intervalRef

\* the state updates of runCycle once the awaited callApi has settled
SettleEffects(outcome) ==
  /\ cycleInFlightRef' = FlagAfterSettle(outcome)
  /\ lastOutcome' = outcome
  /\ circuitBreaker' = IF outcome = "breaker" THEN TRUE ELSE circuitBreaker
  /\ isRunning' = IF outcome = "breaker" THEN FALSE ELSE isRunning

\* startBot line 267: `intervalRef.current = setInterval(...)`, on top of ref value `ref`
SetInterval(ref) ==
  /\ intervalRef' = TRUE
  /\ leakedTimers' = IF ref THEN Min(leakedTimers + 1, MaxLeaked) ELSE leakedTimers

\* `await runCycle()` inside startBot invocation s, entered with the pcs `pcs`
StartRunsCycle(s, pcs) ==
  IF OverlapGuard
  THEN \* runCycle returns at once; the await resumes in a microtask and sets the timer
       /\ SetInterval(intervalRef)
       /\ startPc' = [pcs EXCEPT ![s] = "idle"]
       /\ OverlapSkipped
       /\ UNCHANGED cycleInFlightRef
  ELSE /\ cycleInFlightRef' = TRUE
       /\ startPc' = [pcs EXCEPT ![s] = "cycle"]
       /\ UNCHANGED <<intervalRef, leakedTimers, lastOverlapLogAtRef, warnedAt>>

\* the Start button (enabled while !isRunning): startBot up to its first await
StartBot(s) ==
  /\ startPc[s] = "idle"
  /\ ~isRunning
  /\ circuitBreaker' = FALSE
  /\ isRunning' = TRUE
  /\ stopCompleted' = FALSE
  /\ IF ~isConnected
     THEN /\ startPc' = [startPc EXCEPT ![s] = "connect"]
          /\ UNCHANGED <<cycleInFlightRef, intervalRef, leakedTimers, lastOverlapLogAtRef,
                         warnedAt>>
     ELSE StartRunsCycle(s, startPc)
  /\ UNCHANGED <<isConnected, stopPc, connectCalls, tickCalls, lastOutcome, now>>
  /\ DashFrame

\* `await connectBot()` of startBot settles (derive_creds succeeded or threw), then runCycle
StartConnected(s) ==
  /\ startPc[s] = "connect"
  /\ \E ok \in BOOLEAN : isConnected' = (isConnected \/ ok)
  /\ StartRunsCycle(s, startPc)
  /\ UNCHANGED <<isRunning, circuitBreaker, stopPc, connectCalls, tickCalls,
                 lastOutcome, stopCompleted, now>>
  /\ DashFrame

\* the run_cycle request of startBot's first cycle settles; startBot then sets the timer
StartCycleSettles(s) ==
  /\ startPc[s] = "cycle"
  /\ \E outcome \in Outcomes :
       /\ SettleEffects(outcome)
       /\ SetInterval(RefAfterResponse(outcome))
  /\ startPc' = [startPc EXCEPT ![s] = "idle"]
  /\ UNCHANGED <<isConnected, stopPc, connectCalls, tickCalls, stopCompleted, clockVars>>
  /\ DashFrame

\* a setInterval timer fires: runCycle up to its await (or its early return)
Tick ==
  /\ TimerActive
  /\ IF OverlapGuard
     THEN /\ OverlapSkipped
          /\ UNCHANGED <<cycleInFlightRef, tickCalls>>
     ELSE /\ tickCalls < MaxCalls
          /\ cycleInFlightRef' = TRUE
          /\ tickCalls' = tickCalls + 1
          /\ UNCHANGED <<lastOverlapLogAtRef, warnedAt>>
  /\ UNCHANGED <<intervalRef, leakedTimers, isRunning, isConnected, circuitBreaker,
                 startPc, stopPc, connectCalls, lastOutcome, stopCompleted, now>>
  /\ DashFrame

\* the run_cycle request of a timer tick settles
TickCycleSettles ==
  /\ tickCalls > 0
  /\ \E outcome \in Outcomes :
       /\ SettleEffects(outcome)
       /\ intervalRef' = RefAfterResponse(outcome)
  /\ tickCalls' = tickCalls - 1
  /\ UNCHANGED <<leakedTimers, isConnected, startPc, stopPc, connectCalls, stopCompleted,
                 clockVars>>
  /\ DashFrame

\* the Stop button (enabled while isRunning): stopBot up to `await callApi("cancel_all")`
StopBot(t) ==
  /\ stopPc[t] = "idle"
  /\ isRunning
  /\ intervalRef' = FALSE
  /\ stopPc' = [stopPc EXCEPT ![t] = "cancel"]
  /\ UNCHANGED <<cycleInFlightRef, leakedTimers, isRunning, isConnected, circuitBreaker,
                 startPc, connectCalls, tickCalls, lastOutcome, stopCompleted, clockVars>>
  /\ DashFrame

\* cancel_all settled (either way): `setIsRunning(false)`; stopBot has completed
StopCompletes(t) ==
  /\ stopPc[t] = "cancel"
  /\ isRunning' = FALSE
  /\ stopPc' = [stopPc EXCEPT ![t] = "idle"]
  /\ stopCompleted' = TRUE
  /\ UNCHANGED <<cycleInFlightRef, intervalRef, leakedTimers, isConnected, circuitBreaker,
                 startPc, connectCalls, tickCalls, lastOutcome, clockVars>>
  /\ DashFrame

\* the Connect button (enabled while !isConnected and !isRunning): connectBot up to its await
ConnectBot ==
  /\ ~isConnected
  /\ ~isRunning
  /\ connectCalls = 0
  /\ connectCalls' = 1
  /\ UNCHANGED <<cycleInFlightRef, intervalRef, leakedTimers, isRunning, isConnected,
                 circuitBreaker, startPc, stopPc, tickCalls, lastOutcome, stopCompleted,
                 clockVars>>
  /\ DashFrame

\* derive_creds of the Connect button settles
ConnectSettles ==
  /\ connectCalls > 0
  /\ connectCalls' = connectCalls - 1
  /\ \E ok \in BOOLEAN : isConnected' = (isConnected \/ ok)
  /\ UNCHANGED <<cycleInFlightRef, intervalRef, leakedTimers, isRunning,
                 circuitBreaker, startPc, stopPc, tickCalls, lastOutcome, stopCompleted,
                 clockVars>>
  /\ DashFrame

\* time passes: Date.now() grows by five seconds
ClockAdvances ==
  /\ now < MaxClock
  /\ now' = now + 5
  /\ UNCHANGED <<cycleInFlightRef, intervalRef, leakedTimers, isRunning, isConnected,
                 circuitBreaker, startPc, stopPc, connectCalls, tickCalls, lastOutcome,
                 stopCompleted, lastOverlapLogAtRef, warnedAt>>
  /\ DashFrame

NextDash ==
  \/ \E s \in StartIds : StartBot(s)
  \/ \E s \in StartIds : StartConnected(s)
  \/ \E s \in StartIds : StartCycleSettles(s)
  \/ Tick
  \/ TickCycleSettles
  \/ \E t \in StopIds : StopBot(t)
  \/ \E t \in StopIds : StopCompletes(t)
  \/ ConnectBot
  \/ ConnectSettles

\* the dashboard with the clock running
NextDashClock == ClockAdvances \/ NextDash


(***************************************************************************)
(* Part II. Headless driver (StatsPanel.tsx, "Railway.app Edition")        *)
(***************************************************************************)
HSlots == 1..MaxHeadCycles

\* TOTAL_CAPITAL of the headless bot (default of the environment variable)
HTotalCapital == 65

InitHeadless ==
  /\ hMainPc = "init"
  /\ hCyclePc = [c \in HSlots |-> "idle"]
  /\ hCycleCount = 0
  /\ hDailyPnl = [realized |-> 0, trades |-> 0, circuitBreaker |-> FALSE]
  /\ hDateStale = FALSE
  /\ hPaper \in BOOLEAN

\* runCycle executions that have started and not yet returned
HActiveCycles == {c \in HSlots : hCyclePc[c] # "idle"}

\* resetDailyIfNeeded(): a new UTC date replaces the in-memory day record
ResetDailyIfNeeded(d) ==
  IF hDateStale THEN [realized |-> 0, trades |-> 0, circuitBreaker |-> FALSE] ELSE d

\* realized PnL is kept in units of 1/20000 USDC (spread_bp/10000 * fill * 0.5)
HBelowLimit(d) == d.realized < -(600 * HTotalCapital)

\* runCycle() from its first line to its first network await, in slot c:
\* day reset, cycleCount++, the two circuit-breaker returns, the cached client
HRunCycleBegin(c) ==
  /\ hCyclePc[c] = "idle"
  /\ hCycleCount < MaxCycleCount
  /\ hCycleCount' = hCycleCount + 1
  /\ hDateStale' = FALSE
  /\ LET d == ResetDailyIfNeeded(hDailyPnl) IN
       IF d.circuitBreaker
       THEN /\ hDailyPnl' = d
            /\ hCyclePc' = hCyclePc
       ELSE IF HBelowLimit(d)
       THEN /\ hDailyPnl' = [d EXCEPT !.circuitBreaker = TRUE]
            /\ hCyclePc' = hCyclePc
       ELSE /\ hDailyPnl' = d
            /\ hCyclePc' = [hCyclePc EXCEPT ![c] = IF hPaper THEN "fetch" ELSE "balance"]

\* main(): `await getTradingClient()` settles; a failure ends the process (exit 1)
HMainClient ==
  /\ hMainPc = "init"
  /\ \E ok \in BOOLEAN : hMainPc' = IF ok THEN "balance" ELSE "exited"
  /\ UNCHANGED <<hCyclePc, hCycleCount, hDailyPnl, hDateStale, hPaper>>
  /\ HeadFrame

\* main(): the balance probe settles, then `await runCycle()` starts the first cycle
HMainFirstCycle ==
  /\ hMainPc = "balance"
  /\ HRunCycleBegin(1)
  /\ hMainPc' = IF hCyclePc'[1] = "idle" THEN "scheduled" ELSE "firstCycle"
  /\ UNCHANGED hPaper
  /\ HeadFrame

\* the setInterval(runCycle, INTERVAL_SEC * 1000) timer fires: runCycle is called as is
HTick(c) ==
  /\ hMainPc = "scheduled"
  /\ HRunCycleBegin(c)
  /\ UNCHANGED <<hMainPc, hPaper>>
  /\ HeadFrame

\* a runCycle execution returns; main() resumes after `await runCycle()` and sets the timer
HReturn(c, pcs) ==
  /\ hCyclePc' = [pcs EXCEPT ![c] = "idle"]
  /\ hMainPc' = IF hMainPc = "firstCycle" /\ c = 1 THEN "scheduled" ELSE hMainPc

\* live mode: `await client.getBalance?.()` settles (a failure is only logged)
HBalance(c) ==
  /\ hCyclePc[c] = "balance"
  /\ hCyclePc' = [hCyclePc EXCEPT ![c] = "fetch"]
  /\ UNCHANGED <<hMainPc, hCycleCount, hDailyPnl, hDateStale, hPaper>>
  /\ HeadFrame

\* `await getMarkets(90)` settles: on failure the cycle returns
HFetched(c) ==
  /\ hCyclePc[c] = "fetch"
  /\ \E ok \in BOOLEAN :
       IF ok THEN /\ hCyclePc' = [hCyclePc EXCEPT ![c] = "enrich"]
                  /\ UNCHANGED hMainPc
       ELSE HReturn(c, hCyclePc)
  /\ UNCHANGED <<hCycleCount, hDailyPnl, hDateStale, hPaper>>
  /\ HeadFrame

\* the enrichment lookups (sponsor pool, order book) have all settled.  In paper mode
\* the rest of the cycle has no await: the simulated fills (nFill of them, each adding
\* a positive spread capture) are applied and the cycle returns.
HEnriched(c) ==
  /\ hCyclePc[c] = "enrich"
  /\ IF hPaper
     THEN /\ \E nFill \in 0..2 :
               /\ hDailyPnl.trades + nFill <= MaxHeadTrades
               /\ hDailyPnl' = [hDailyPnl EXCEPT !.realized = @ + nFill,
                                                  !.trades = @ + nFill]
          /\ HReturn(c, hCyclePc)
     ELSE /\ hCyclePc' = [hCyclePc EXCEPT ![c] = "orders"]
          /\ UNCHANGED <<hMainPc, hDailyPnl>>
  /\ UNCHANGED <<hCycleCount, hDateStale, hPaper>>
  /\ HeadFrame

\* live mode: `await client.getOpenOrders()` settles (a failure is only logged)
HOpenOrders(c) ==
  /\ hCyclePc[c] = "orders"
  /\ hCyclePc' = [hCyclePc EXCEPT ![c] = "quote"]
  /\ UNCHANGED <<hMainPc, hCycleCount, hDailyPnl, hDateStale, hPaper>>
  /\ HeadFrame

\* live mode: the last cancel/place request of the market loop settles; the cycle returns
HQuoted(c) ==
  /\ hCyclePc[c] = "quote"
  /\ HReturn(c, hCyclePc)
  /\ UNCHANGED <<hCycleCount, hDailyPnl, hDateStale, hPaper>>
  /\ HeadFrame

\* the UTC date changes
HNewDay ==
  /\ ~hDateStale
  /\ hDateStale' = TRUE
  /\ UNCHANGED <<hMainPc, hCyclePc, hCycleCount, hDailyPnl, hPaper>>
  /\ HeadFrame

NextHeadless ==
  \/ HMainClient
  \/ HMainFirstCycle
  \/ \E c \in HSlots : HTick(c)
  \/ \E c \in HSlots : HBalance(c)
  \/ \E c \in HSlots : HFetched(c)
  \/ \E c \in HSlots : HEnriched(c)
  \/ \E c \in HSlots : HOpenOrders(c)
  \/ \E c \in HSlots : HQuoted(c)
  \/ HNewDay


(***************************************************************************)
(* Part III. Edge function (supabase/functions/polymarket-api/index.ts)    *)
(*                                                                         *)
(* Units.  Prices are integers in millionths of a dollar (0.40 = 400000);  *)
(* spreads are basis points (1 bp = 100 millionths); sizes and positions   *)
(* are whole USDC; realized PnL is in 1/20000 USDC, the unit in which the  *)
(* paper fill credit  spreadDecimal * fill * 0.5 = bp * fill / 20000  is   *)
(* an integer.  The arithmetic is exact (no binary rounding error).        *)
(***************************************************************************)
Abs(x) == IF x < 0 THEN -x ELSE x

\* Math.round for a ratio n/d with d > 0 (round half up, as JavaScript does)
RoundDiv(n, d) == (2 * n + d) \div (2 * d)

\* the fallback tick 0.01
FallbackTick == 10000

\* getTickSize: the first truthy tick field of the book, parsed, if it is a positive
\* number; else the fallback 0.01.  tickRaw = 0 stands for absent, "0" or unparsable.
GetTickSize(book) == IF book.tickRaw > 0 THEN book.tickRaw ELSE FallbackTick

\* floorToTick: Math.floor(price / tick) * tick
FloorToTick(price, tick) == (price \div tick) * tick
\* ceilToTick: Math.ceil(price / tick) * tick
CeilToTick(price, tick) == (-((-price) \div tick)) * tick

\* digits after the point in String(tickSize): `(tickSizeStr.split(".")[1] || "").length`
\* 10^k
RECURSIVE Pow10(_)
Pow10(k) == IF k <= 0 THEN 1 ELSE 10 * Pow10(k - 1)

\* digits after the point in String(tickSize): `(tickSizeStr.split(".")[1] || "").length`
Decimals(tick) ==
  CHOOSE d \in 0..6 : /\ tick % Pow10(6 - d) = 0
                      /\ \A e \in 0..(d - 1) : tick % Pow10(6 - e) # 0

\* Number(price.toFixed(decimals)): round to `decimals` digits after the point
ToFixed(price, decimals) ==
  LET step == Pow10(6 - decimals) IN RoundDiv(price, step) * step

\* getMidPrice: mid, its source and the derived book figures.  A book field of 0 stands
\* for "absent" (no bids, no asks, no lastTradePrice); failed stands for a thrown
\* getOrderBook.  range1h = (ask - bid) / mid * 100 is kept as the fraction num/den.
GetMidPrice(book) ==
  IF book.failed
  THEN [mid |-> 0, source |-> "empty", rangeNum |-> 0, rangeDen |-> 1, bidDepth |-> 0,
        askDepth |-> 0, bestBid |-> 0, bestAsk |-> 0, tickSize |-> FallbackTick]
  ELSE IF book.bid > 0 /\ book.ask > 0
  THEN [mid |-> (book.bid + book.ask) \div 2, source |-> "orderbook",
        rangeNum |-> 200 * (book.ask - book.bid), rangeDen |-> book.bid + book.ask,
        bidDepth |-> book.bidSize, askDepth |-> book.askSize,
        bestBid |-> book.bid, bestAsk |-> book.ask, tickSize |-> GetTickSize(book)]
  ELSE IF book.last > 0
  THEN [mid |-> book.last, source |-> "last_trade", rangeNum |-> 0, rangeDen |-> 1,
        bidDepth |-> 0, askDepth |-> 0, bestBid |-> 0, bestAsk |-> 0,
        tickSize |-> GetTickSize(book)]
  ELSE IF book.bid > 0
  THEN [mid |-> book.bid, source |-> "bid_only", rangeNum |-> 0, rangeDen |-> 1,
        bidDepth |-> book.bidSize, askDepth |-> 0, bestBid |-> book.bid, bestAsk |-> 0,
        tickSize |-> GetTickSize(book)]
  ELSE IF book.ask > 0
  THEN [mid |-> book.ask, source |-> "ask_only", rangeNum |-> 0, rangeDen |-> 1,
        bidDepth |-> 0, askDepth |-> book.askSize, bestBid |-> 0, bestAsk |-> book.ask,
        tickSize |-> GetTickSize(book)]
  ELSE [mid |-> 0, source |-> "empty", rangeNum |-> 0, rangeDen |-> 1, bidDepth |-> 0,
        askDepth |-> 0, bestBid |-> 0, bestAsk |-> 0, tickSize |-> FallbackTick]

\* calcDynamicSpread without its clamp to [5, 60]
CalcDynamicSpreadUnclamped(baseBp, sponsorPool, rangeNum, rangeDen) ==
  LET sponsorPct == IF sponsorPool > 2000 THEN 50
                    ELSE IF sponsorPool > 1000 THEN 70
                    ELSE IF sponsorPool > 500 THEN 85 ELSE 100
      volPct == IF rangeNum > 4 * rangeDen THEN 140
                ELSE IF rangeNum > 2 * rangeDen THEN 120 ELSE 100
  IN RoundDiv(baseBp * sponsorPct * volPct, 10000)

\* calcDynamicSpread: base spread times the sponsor and volatility factors (in percent),
\* rounded, clamped to [5, 60] bp
CalcDynamicSpread(baseBp, sponsorPool, rangeNum, rangeDen) ==
  LET sponsorPct == IF sponsorPool > 2000 THEN 50
                    ELSE IF sponsorPool > 1000 THEN 70
                    ELSE IF sponsorPool > 500 THEN 85 ELSE 100
      volPct == IF rangeNum > 4 * rangeDen THEN 140
                ELSE IF rangeNum > 2 * rangeDen THEN 120 ELSE 100
  IN Max(5, Min(60, RoundDiv(baseBp * sponsorPct * volPct, 10000)))

\* applySkew with the position pauses taken at the limit itself (>= for >)
ApplySkewAtLimit(buyPrice, sellPrice, orderSize, netPos, maxPos, baseBp, minPrice, maxPrice) ==
  LET long == 10 * netPos > 6 * maxPos
      short == ~long /\ 10 * netPos < -(6 * maxPos)
      buy == IF long THEN buyPrice - baseBp * 50
             ELSE IF short THEN buyPrice + baseBp * 30 ELSE buyPrice
      sell == IF long THEN sellPrice - baseBp * 30
              ELSE IF short THEN sellPrice + baseBp * 50 ELSE sellPrice
  IN [buyPrice |-> Max(minPrice, Min(maxPrice, buy)),
      sellPrice |-> Max(minPrice, Min(maxPrice, sell)),
      buySize |-> IF long THEN Max(2, RoundDiv(orderSize, 2)) ELSE orderSize,
      sellSize |-> IF short THEN Max(2, RoundDiv(orderSize, 2)) ELSE orderSize,
      pauseBuy |-> netPos >= maxPos,
      pauseSell |-> netPos <= -maxPos]

\* applySkew: inventory skew of prices and sizes, the position pauses, the price clamp
ApplySkew(buyPrice, sellPrice, orderSize, netPos, maxPos, baseBp, minPrice, maxPrice) ==
  LET long == 10 * netPos > 6 * maxPos
      short == ~long /\ 10 * netPos < -(6 * maxPos)
      buy == IF long THEN buyPrice - baseBp * 50
             ELSE IF short THEN buyPrice + baseBp * 30 ELSE buyPrice
      sell == IF long THEN sellPrice - baseBp * 30
              ELSE IF short THEN sellPrice + baseBp * 50 ELSE sellPrice
  IN [buyPrice |-> Max(minPrice, Min(maxPrice, buy)),
      sellPrice |-> Max(minPrice, Min(maxPrice, sell)),
      buySize |-> IF long THEN Max(2, RoundDiv(orderSize, 2)) ELSE orderSize,
      sellSize |-> IF short THEN Max(2, RoundDiv(orderSize, 2)) ELSE orderSize,
      pauseBuy |-> netPos > maxPos,
      pauseSell |-> netPos < -maxPos]

\* isWithinTolerance with no price ever within tolerance
IsWithinToleranceNone(existingPrice, targetPrice) ==
  Abs(existingPrice - targetPrice) < 0
\* isWithinTolerance with a tolerance of 15 bp
IsWithinToleranceWide(existingPrice, targetPrice) ==
  Abs(existingPrice - targetPrice) <= 1500
\* isWithinTolerance: |existing - target| <= 0.5 bp
IsWithinTolerance(existingPrice, targetPrice) ==
  2 * Abs(existingPrice - targetPrice) <= 100

\* run_cycle's reading of its parameters without the 8% clamp of the order size
NormalizeConfigNoClamp(params) ==
  LET totalCapital == IF params.totalCapital # 0 THEN params.totalCapital ELSE 65
      orderSize == IF params.orderSize # 0 THEN params.orderSize ELSE 6
  IN [maxMarkets |-> IF params.maxMarkets # 0 THEN params.maxMarkets ELSE 12,
      baseBp |-> IF params.spread # 0 THEN params.spread ELSE 22,
      orderSize |-> IF orderSize < 1 THEN 1 ELSE orderSize,
      paperTrading |-> ~params.liveTrading,
      totalCapital |-> totalCapital,
      maxPosition |-> Min(IF params.maxPosition # 0 THEN params.maxPosition ELSE 30,
                          (totalCapital * 48) \div 100),
      minSponsorPool |-> params.minSponsorPool,
      minLiquidityDepth |-> IF params.minLiquidityDepth # 0
                            THEN params.minLiquidityDepth ELSE 80,
      minVolume24h |-> IF params.minVolume24h # 0 THEN params.minVolume24h ELSE 1500,
      aggressiveShortTerm |-> params.aggressiveShortTerm,
      useExternalOracle |-> params.useExternalOracle]

\* run_cycle's reading of its parameters.  A numeric parameter of 0 stands for an absent
\* or falsy one (`params.x || default`).
NormalizeConfig(params) ==
  LET totalCapital == IF params.totalCapital # 0 THEN params.totalCapital ELSE 65
      orderSize == Min(IF params.orderSize # 0 THEN params.orderSize ELSE 6,
                       (totalCapital * 8) \div 100)
  IN [maxMarkets |-> IF params.maxMarkets # 0 THEN params.maxMarkets ELSE 12,
      baseBp |-> IF params.spread # 0 THEN params.spread ELSE 22,
      orderSize |-> IF orderSize < 1 THEN 1 ELSE orderSize,
      paperTrading |-> ~params.liveTrading,
      totalCapital |-> totalCapital,
      maxPosition |-> Min(IF params.maxPosition # 0 THEN params.maxPosition ELSE 30,
                          (totalCapital * 48) \div 100),
      minSponsorPool |-> params.minSponsorPool,
      minLiquidityDepth |-> IF params.minLiquidityDepth # 0
                            THEN params.minLiquidityDepth ELSE 80,
      minVolume24h |-> IF params.minVolume24h # 0 THEN params.minVolume24h ELSE 1500,
      aggressiveShortTerm |-> params.aggressiveShortTerm,
      useExternalOracle |-> params.useExternalOracle]

\* getCategoryBonus.  A title is abstracted to the keyword table it hits first
\* ("tier1", "crypto", "sports", "macro" for the three kinds of tier-2 keyword, or
\* "other") and to whether it holds a negative keyword.
GetCategoryBonus(title, negative, sponsorPool, aggressiveShortTerm) ==
  LET isTier1 == title = "tier1"
      isTier2 == title \in {"crypto", "sports", "macro"}
      b1 == IF isTier1 THEN (IF aggressiveShortTerm THEN 35000 ELSE 17500)
            ELSE IF isTier2 THEN (IF aggressiveShortTerm THEN 18000 ELSE 9000) ELSE 0
      c1 == IF isTier1 THEN "top-tier"
            ELSE IF title = "crypto" THEN "crypto/short-term"
            ELSE IF title = "sports" THEN "sports"
            ELSE IF title = "macro" THEN "macro" ELSE "other"
      b2 == IF sponsorPool > 0 THEN b1 + 8000 ELSE b1
      c2 == IF sponsorPool > 0 /\ c1 = "other" THEN "sponsored" ELSE c1
  IN [bonus |-> IF negative THEN b2 - 15000 ELSE b2,
      category |-> IF negative THEN "long-term" ELSE c2,
      isTier1 |-> isTier1]

\* scoreMarket with the sponsor pool taken off the score (- 30 * sponsor)
ScoreMarketSponsorCost(volume24h, sponsorPool, liquidityDepth, categoryBonus, isTier1) ==
  LET base == 3 * Min(volume24h, 500000) - 3000 * sponsorPool
              + 80 * Min(liquidityDepth, 50000) + 100 * categoryBonus
  IN IF isTier1 THEN 4 * base ELSE base

\* scoreMarket, in hundredths of a point (0.03 * vol + 30 * sponsor + 0.8 * depth + bonus)
ScoreMarket(volume24h, sponsorPool, liquidityDepth, categoryBonus, isTier1) ==
  LET base == 3 * Min(volume24h, 500000) + 3000 * sponsorPool
              + 80 * Min(liquidityDepth, 50000) + 100 * categoryBonus
  IN IF isTier1 THEN 4 * base ELSE base

\* one element of `enriched`: the catalogue entry with its book figures and score
EnrichedOf(m, g, r, cfg) ==
  LET liquidityDepth == r.bidDepth + r.askDepth
      coinFlipPenalty == IF Abs(r.mid - 500000) < 5000 THEN -2000 ELSE 0
      hasSpread == r.bestBid > 0 /\ r.bestAsk > 0
      wideSpreadPenalty ==
        IF hasSpread /\ 10 * (r.bestAsk - r.bestBid) > r.mid THEN -3000
        ELSE IF hasSpread /\ 20 * (r.bestAsk - r.bestBid) > r.mid THEN -1000 ELSE 0
      depthPenalty == IF liquidityDepth < cfg.minLiquidityDepth THEN -1500 ELSE 0
      cat == GetCategoryBonus(g.title, g.negative, g.sponsorPool, cfg.aggressiveShortTerm)
  IN [id |-> m, mid |-> r.mid, midSource |-> r.source, rangeNum |-> r.rangeNum,
      rangeDen |-> r.rangeDen, tickSize |-> r.tickSize, sponsorPool |-> g.sponsorPool,
      liquidityDepth |-> liquidityDepth, category |-> cat.category,
      score |-> ScoreMarket(g.volume24h, g.sponsorPool, liquidityDepth,
                            cat.bonus + coinFlipPenalty + wideSpreadPenalty + depthPenalty,
                            cat.isTier1)]

\* the element for catalogue entry m: getMidPrice reads its book
Enriched(m, cfg) == EnrichedOf(m, markets[m], GetMidPrice(markets[m]), cfg)

\* the three hard skips of the enrichment loop: empty book, depth < 80, sponsor pool
Kept(e, cfg) ==
  /\ ~(e.mid = 0 \/ e.midSource = "empty")
  /\ ~(e.liquidityDepth < 80)
  /\ ~(e.sponsorPool < cfg.minSponsorPool)

KeptByEnrichment(m, cfg) == Kept(Enriched(m, cfg), cfg)

\* the score of catalogue entry m
Score(m, cfg) == Enriched(m, cfg).score

\* the enriched markets left in catalogue order
SortByScoreNone(ms, cfg) == ms

\* Array.prototype.sort((a, b) => b.score - a.score): stable, descending
RECURSIVE SortByScore(_, _)
SortByScore(ms, cfg) ==
  IF ms = <<>> THEN <<>>
  ELSE LET best == CHOOSE i \in 1..Len(ms) :
                     /\ \A j \in 1..Len(ms) : Score(ms[j], cfg) <= Score(ms[i], cfg)
                     /\ \A j \in 1..(i - 1) : Score(ms[j], cfg) < Score(ms[i], cfg)
           rest == SubSeq(ms, 1, best - 1) \o SubSeq(ms, best + 1, Len(ms))
       IN <<ms[best]>> \o SortByScore(rest, cfg)

\* seq.slice(0, n)
Slice(seq, n) == SubSeq(seq, 1, Min(Len(seq), n))

\* step 2: allMarkets.filter(vol >= minVolume24h), in catalogue order
VolumeFiltered(cfg) ==
  SelectSeq([i \in 1..Len(markets) |-> i],
            LAMBDA m : markets[m].volume24h >= cfg.minVolume24h)

\* step 3: the enrichment loop over the first min(3 * maxMarkets, 50) of them
EnrichedMarkets(cfg) ==
  SelectSeq(Slice(VolumeFiltered(cfg), Min(cfg.maxMarkets * 3, 50)),
            LAMBDA m : KeptByEnrichment(m, cfg))

\* step 4: sort by score, top maxMarkets
SelectedMarkets(cfg) == Slice(SortByScore(EnrichedMarkets(cfg), cfg), cfg.maxMarkets)

\* the grid check of the live branch with > for >=
GridInvalidStrict(pauseBuy, pauseSell, safeBuyPrice, safeSellPrice) ==
  ~pauseBuy /\ ~pauseSell /\ safeBuyPrice > safeSellPrice
\* `!skew.pauseBuy && !skew.pauseSell && safeBuyPrice >= safeSellPrice`
GridInvalid(pauseBuy, pauseSell, safeBuyPrice, safeSellPrice) ==
  ~pauseBuy /\ ~pauseSell /\ safeBuyPrice >= safeSellPrice

\* the live branch's tick alignment and grid check of a skewed quote
QuoteAligned(tickSize, minPrice, maxPrice, netPos, dynamicBp, skew, pauseBuy, pauseSell) ==
  LET decimals == Decimals(tickSize)
      safeBuyPrice ==
        ToFixed(FloorToTick(Max(minPrice, Min(maxPrice, skew.buyPrice)), tickSize), decimals)
      safeSellPrice ==
        ToFixed(CeilToTick(Max(minPrice, Min(maxPrice, skew.sellPrice)), tickSize), decimals)
  IN [netPos |-> netPos, tickSize |-> tickSize, dynamicBp |-> dynamicBp,
      buyPrice |-> skew.buyPrice, sellPrice |-> skew.sellPrice,
      buySize |-> skew.buySize, sellSize |-> skew.sellSize,
      pauseBuy |-> pauseBuy, pauseSell |-> pauseSell,
      safeBuyPrice |-> safeBuyPrice, safeSellPrice |-> safeSellPrice,
      skip |-> GridInvalid(pauseBuy, pauseSell, safeBuyPrice, safeSellPrice)]

\* raw prices mid -/+ spread, applySkew, and the near-certain override of the pauses
QuoteSkewed(e, cfg, netPos, dynamicBp, minPrice, maxPrice) ==
  LET skew == ApplySkew(e.mid - dynamicBp * 100, e.mid + dynamicBp * 100, cfg.orderSize,
                        netPos, cfg.maxPosition, dynamicBp, minPrice, maxPrice)
  IN QuoteAligned(e.tickSize, minPrice, maxPrice, netPos, dynamicBp, skew,
                  skew.pauseBuy \/ (~(e.mid > 920000) /\ e.mid < 80000),
                  skew.pauseSell \/ e.mid > 920000)

\* the near-certain cap taken at 0.92 and 0.08 themselves (>= and <=)
NearCertainBpAtEdge(mid, dyn) == IF mid >= 920000 \/ mid <= 80000 THEN Min(dyn, 5) ELSE dyn
\* the near-certain cap: mid > 0.92 or mid < 0.08 caps the spread at 5 bp
NearCertainBp(mid, dyn) == IF mid > 920000 \/ mid < 80000 THEN Min(dyn, 5) ELSE dyn

\* the quote of one enriched market at net position netPos
QuoteOf(e, cfg, netPos) ==
  QuoteSkewed(e, cfg, netPos,
              NearCertainBp(e.mid, CalcDynamicSpread(cfg.baseBp, e.sponsorPool,
                                                     e.rangeNum, e.rangeDen)),
              e.tickSize, Max(e.tickSize, 1000000 - e.tickSize))

Quote(m, cfg, netPos) == QuoteOf(Enriched(m, cfg), cfg, netPos)

\* getExternalPrice's null: no oracle price (or the oracle was not asked)
NoPrice == -1

\* isCryptoMarket.  The titles of class "crypto" hold BTC, ETH or SOL, which are also
\* symbols of getExternalPrice's cryptoMap; the titles of class "other" of the model hold
\* none of CRYPTO_KEYWORDS.
IsCryptoMarket(title) == title = "crypto"

\* a cycle whose quoting formula takes the oracle's price for the mid when it has one
MidPriceFromOracle(e, extPrice) == IF extPrice # NoPrice THEN extPrice ELSE e.mid
\* `let midPrice = market.mid`: the oracle's answer is logged and not assigned to it
MidPrice(e, extPrice) == e.mid

\* the quote of catalogue entry m as run_cycle computes it after the oracle's answer
QuoteAfterOracle(m, cfg, netPos, extPrice) ==
  QuoteOf([Enriched(m, cfg) EXCEPT !.mid = MidPrice(Enriched(m, cfg), extPrice)],
          cfg, netPos)

(***************************************************************************)
(* The run_cycle handler, one action per await.  Database and venue calls   *)
(* take effect atomically when they are served; the handler's locals are    *)
(* the fields of req[r].  logTrade inserts are folded into the step that    *)
(* precedes them; the rows they insert are kept in req[r].trades.           *)
(***************************************************************************)
\* requests the edge runtime serves at once
MaxRequests == 2
\* run_cycle requests received before the model stops
MaxCycles == 3
\* simulated fills booked for the day, per market of the catalogue, before the model
\* stops offering fills
MaxTrades == 1
\* live run_cycle requests received before the model of live quoting stops
MaxLiveCycles == 2

Requests == 1..MaxRequests

NoRow == [exists |-> FALSE, realized_pnl |-> 0, total_capital |-> 0, trade_count |-> 0,
          circuit_breaker_triggered |-> FALSE]
NoCfg == [maxMarkets |-> 0, baseBp |-> 0, orderSize |-> 0, paperTrading |-> TRUE,
          totalCapital |-> 0, maxPosition |-> 0, minSponsorPool |-> 0,
          minLiquidityDepth |-> 0, minVolume24h |-> 0, aggressiveShortTerm |-> TRUE,
          useExternalOracle |-> FALSE]
NoQuote == [netPos |-> 0, tickSize |-> 0, dynamicBp |-> 0, buyPrice |-> 0, sellPrice |-> 0,
            buySize |-> 0, sellSize |-> 0, pauseBuy |-> FALSE, pauseSell |-> FALSE,
            safeBuyPrice |-> 0, safeSellPrice |-> 0, skip |-> FALSE]
\* no venue call and no simulated quote yet
NoCalls == <<>>
NoLogs == {}
\* no row inserted into bot_trade_log yet
NoTrades == <<>>
\* the response body: ordersPlaced, circuitBreaker, totalMarkets (-1: the field is not in
\* the body) and what its logs tell: the parameters line, the [SKIP] lines, the paper
\* quote lines; with it are kept the venue calls the cycle made, its order snapshot, the
\* rows it inserted into bot_trade_log, how its catalogue fetch ended, the markets it
\* selected and the markets its loop reached
NoResult == [ordersPlaced |-> -1, circuitBreaker |-> FALSE, skipped |-> {},
             totalMarkets |-> -1, cfg |-> NoCfg, logs |-> NoLogs, calls |-> NoCalls,
             existingOrders |-> <<>>, repeat |-> FALSE, trades |-> NoTrades,
             catalog |-> "", selection |-> <<>>, processed |-> <<>>]

IdleReq ==
  [pc |-> "idle",           \* the await the handler is suspended at
   cfg |-> NoCfg,           \* the normalised parameters
   currentDailyPnl |-> 0,   \* realized_pnl as read by the breaker check
   afterLatch |-> FALSE,    \* history: the row had been latched when the check read it
   existing |-> NoRow,      \* upsertDailyPnl: const existing
   selectedMarkets |-> <<>>,\* the markets still to process, current one first
   existingOrders |-> <<>>, \* the open-order snapshot
   extPrice |-> NoPrice,    \* the current market's oracle answer (const extPrice)
   skew |-> NoQuote,        \* the current market's quote
   side |-> "BUY",          \* the side being processed
   actualFill |-> 0,        \* paper: the simulated fill
   current |-> 0,           \* updateNetPosition: const current
   pending |-> <<>>,        \* live: ids of the orders still to cancel on this side
   orders |-> 0,            \* orders.length
   skipped |-> {},          \* the [SKIP] log lines: market, buy and sell price
   logs |-> NoLogs,         \* the [PAPER] quote lines: market, side, price, size, position
   calls |-> NoCalls,       \* history: the venue calls made so far, in order
   repeat |-> FALSE,        \* history: the slot's last cycle ran to its end with these
                            \* parameters and none of its venue calls failed
   trades |-> NoTrades,     \* the rows this cycle inserted into bot_trade_log, in order
   catalog |-> "",          \* getMarkets(90): "" not called yet | "ok" | "error"
   selection |-> <<>>,      \* const selectedMarkets, as sliced at step 4
   processed |-> <<>>,      \* history: the markets the loop has reached, in order
   result |-> NoResult]     \* the last response of this slot

\* the -3% test: realized PnL (1/20000 USDC) against 3% of the capital (USDC), loosened to 4%
BelowLimitLoose(pnl, totalCapital) == pnl < -(800 * totalCapital)
\* `currentDailyPnl < -(totalCapital * 0.03)`; 0.03 USDC = 600 units
BelowLimit(pnl, totalCapital) == pnl < -(600 * totalCapital)

\* the row upsertDailyPnl writes from the row it read
UpsertDailyPnl(existing, pnl, totalCapital, tradeCount, breaker) ==
  [exists |-> TRUE,
   realized_pnl |-> existing.realized_pnl + pnl,
   total_capital |-> totalCapital,
   trade_count |-> existing.trade_count + tradeCount,
   circuit_breaker_triggered |-> breaker \/ existing.circuit_breaker_triggered]

WriteRow(newRow) ==
  /\ dailyRow' = newRow
  /\ latched' = (latched \/ newRow.circuit_breaker_triggered)

SetReq(r, rq) == req' = [req EXCEPT ![r] = rq]

\* `return new Response(...)`: the slot becomes free, the response is kept
Returned(rq, ordersPlaced, breaker) ==
  [IdleReq EXCEPT !.result = [ordersPlaced |-> ordersPlaced,
                              circuitBreaker |-> breaker,
                              skipped |-> rq.skipped,
                              totalMarkets |-> -1,
                              cfg |-> rq.cfg,
                              logs |-> rq.logs,
                              calls |-> rq.calls,
                              existingOrders |-> rq.existingOrders,
                              repeat |-> rq.repeat,
                              trades |-> rq.trades,
                              catalog |-> rq.catalog,
                              selection |-> rq.selection,
                              processed |-> rq.processed]]

\* the response at the end of the handler: totalMarkets is selectedMarkets.length
Completed(rq, ordersPlaced) ==
  [Returned(rq, ordersPlaced, FALSE) EXCEPT
     !.result.totalMarkets = Len(SelectedMarkets(rq.cfg))]

\* a venue call as the history keeps it
Call(op, market, side, id, price, size, ok) ==
  [op |-> op, market |-> market, side |-> side, id |-> id, price |-> price,
   size |-> size, ok |-> ok]

\* a row of bot_trade_log as logTrade inserts it: its action, market and side, and the
\* venue call (by its place in `calls`) whose result it records
Trade(action, market, side, call) ==
  [action |-> action, market |-> market, side |-> side, call |-> call]

\* the cycle of this response ran to the end of its loop and no venue call of it threw
CleanRun(result) ==
  /\ result.totalMarkets >= 0
  /\ \A i \in 1..Len(result.calls) : result.calls[i].ok

\* the head of one iteration: with the oracle enabled and a crypto title the handler
\* first awaits getExternalPrice, else it suspends at getNetPosition
EnterMarket(rq) ==
  [rq EXCEPT !.pc = IF /\ rq.cfg.useExternalOracle
                       /\ IsCryptoMarket(markets[Head(rq.selectedMarkets)].title)
                    THEN "oracle" ELSE "market"]

\* the end of one iteration of `for (const market of selectedMarkets)`: the next
\* iteration suspends at getNetPosition; after the last one the handler returns
NextMarket(rq) ==
  IF Len(rq.selectedMarkets) <= 1
  THEN Completed(rq, rq.orders)
  ELSE EnterMarket([rq EXCEPT !.selectedMarkets = Tail(rq.selectedMarkets),
                              !.skew = NoQuote, !.extPrice = NoPrice, !.pending = <<>>,
                              !.side = "BUY", !.actualFill = 0])

\* entering the loop
FirstMarket(rq) ==
  IF rq.selectedMarkets = <<>> THEN Completed(rq, 0) ELSE EnterMarket(rq)

\* the open-order snapshot fetched in paper mode too
AfterEnrichAlwaysSnapshot(rq) == [rq EXCEPT !.pc = "openOrders"]
\* after the selection: live mode first awaits getOpenOrders
AfterEnrich(rq) ==
  IF rq.cfg.paperTrading THEN FirstMarket(rq) ELSE [rq EXCEPT !.pc = "openOrders"]

\* case "run_cycle": the parameters are read; next await: the auto-repair update
RunCycle(r, params) ==
  /\ req[r].pc = "idle"
  /\ cyclesBegun < MaxCycles
  /\ cyclesBegun' = cyclesBegun + 1
  /\ SetReq(r, [IdleReq EXCEPT !.pc = "repair", !.cfg = NormalizeConfig(params),
                               !.repeat = /\ req[r].result.cfg = NormalizeConfig(params)
                                          /\ CleanRun(req[r].result)])
  /\ UNCHANGED <<markets, dailyRow, positions, venue, nextOrderId, latched, submitted>>
  /\ SrvFrame

\* `update({net_position: 0}).gt("net_position", maxPosition * 1.5)`
AutoRepair(r) ==
  /\ req[r].pc = "repair"
  /\ positions' = [m \in DOMAIN positions |->
                     IF 2 * positions[m] > 3 * req[r].cfg.maxPosition
                     THEN 0 ELSE positions[m]]
  /\ SetReq(r, [req[r] EXCEPT !.pc = "check"])
  /\ UNCHANGED <<markets, dailyRow, venue, nextOrderId, cyclesBegun, latched, submitted>>
  /\ SrvFrame

\* step 0: getDailyPnl is served; the breaker check and the -3% test follow at once
BreakerCheck(r) ==
  /\ req[r].pc = "check"
  /\ LET rq == [req[r] EXCEPT !.currentDailyPnl = dailyRow.realized_pnl,
                              !.afterLatch = latched]
     IN IF dailyRow.circuit_breaker_triggered
        THEN SetReq(r, Returned(rq, 0, TRUE))
        ELSE IF BelowLimit(dailyRow.realized_pnl, rq.cfg.totalCapital)
        THEN SetReq(r, [rq EXCEPT !.pc = "latchRead"])
        ELSE SetReq(r, [rq EXCEPT !.pc = "fetch"])
  /\ UNCHANGED <<markets, dailyRow, positions, venue, nextOrderId, cyclesBegun, latched,
                 submitted>>
  /\ SrvFrame

\* upsertDailyPnl(sb, 0, totalCapital, 0, true): its getDailyPnl is served
LatchRead(r) ==
  /\ req[r].pc = "latchRead"
  /\ SetReq(r, [req[r] EXCEPT !.pc = "latchWrite", !.existing = dailyRow])
  /\ UNCHANGED <<markets, dailyRow, positions, venue, nextOrderId, cyclesBegun, latched,
                 submitted>>
  /\ SrvFrame

\* ... its upsert is served, and the handler returns ordersPlaced 0, circuitBreaker true
LatchWrite(r) ==
  /\ req[r].pc = "latchWrite"
  /\ WriteRow(UpsertDailyPnl(req[r].existing, 0, req[r].cfg.totalCapital, 0, TRUE))
  /\ SetReq(r, Returned(req[r], 0, TRUE))
  /\ UNCHANGED <<markets, positions, venue, nextOrderId, cyclesBegun, submitted>>
  /\ SrvFrame

\* how one fetch of getMarkets ends: a 2xx answer, an error status, or a thrown fetch
FetchOutcomes == {"ok", "status", "throw"}

\* getMarkets: the ordered endpoint is asked; on an error status the endpoint without the
\* ordering parameter is asked; an error status there, or a thrown fetch, throws
GetMarkets(ordered, fallback) ==
  IF ordered = "ok" THEN "ok"
  ELSE IF ordered = "throw" THEN "error"
  ELSE IF fallback = "ok" THEN "ok" ELSE "error"

\* a failed catalogue fetch that lets the cycle go on to the enrichment
CatalogFailedGoesOn(rq) == [rq EXCEPT !.pc = "enrich"]
\* the catch of step 1: `return new Response({ok: true, logs, ordersPlaced: 0})`
CatalogFailed(rq) == Returned(rq, 0, FALSE)

\* step 1: getMarkets resolves or throws (then the handler returns without quoting)
FetchMarkets(r) ==
  /\ req[r].pc = "fetch"
  /\ \E ordered, fallback \in FetchOutcomes :
       LET rq == [req[r] EXCEPT !.catalog = GetMarkets(ordered, fallback)]
       IN SetReq(r, IF rq.catalog = "ok" THEN [rq EXCEPT !.pc = "enrich"]
                    ELSE CatalogFailed(rq))
  /\ UNCHANGED <<markets, dailyRow, positions, venue, nextOrderId, cyclesBegun, latched,
                 submitted>>
  /\ SrvFrame

\* steps 2-4: the book of every candidate is read (books do not move in the model, so
\* the reads are taken together), the markets are scored and selected; in paper mode
\* the loop is entered at once
Enrich(r) ==
  /\ req[r].pc = "enrich"
  /\ LET selectedMarkets == SelectedMarkets(req[r].cfg)
     IN SetReq(r, AfterEnrich([req[r] EXCEPT !.selectedMarkets = selectedMarkets,
                                             !.selection = selectedMarkets]))
  /\ UNCHANGED <<markets, dailyRow, positions, venue, nextOrderId, cyclesBegun, latched,
                 submitted>>
  /\ SrvFrame


\* the values of Math.max(0, Math.round(safeFillSize * (0.3 + Math.random() * 0.7)))
FillSizes(safeFillSize) ==
  IF safeFillSize <= 0 THEN {0} ELSE RoundDiv(3 * safeFillSize, 10)..safeFillSize

\* the paper side with neither the cap of the fill at maxPosition - |netPos| nor the
\* refusal of a fill that would pass maxPosition
PaperSideUnbounded(rq, side) ==
  LET q == rq.skew
      paused == IF side = "BUY" THEN q.pauseBuy ELSE q.pauseSell
      size == IF side = "BUY" THEN q.buySize ELSE q.sellSize
      fills == {f \in FillSizes(size) : ~(f <= 0)}
      line == [market |-> Head(rq.selectedMarkets), side |-> side, netPos |-> q.netPos,
               price |-> IF side = "BUY" THEN q.buyPrice ELSE q.sellPrice, size |-> size]
      logged == [rq EXCEPT !.logs = @ \cup {line}]
  IN IF paused THEN {[rq EXCEPT !.pc = "sideDone"]}
     ELSE {[logged EXCEPT !.pc = "sideDone", !.orders = @ + 1]}
          \cup (IF dailyRow.trade_count < MaxTrades * Len(markets)
                THEN {[logged EXCEPT !.pc = "posRead", !.side = side, !.actualFill = f] :
                        f \in fills}
                ELSE {})

\* one side of the paper branch, entered with the quote in rq.skew: the side is paused,
\* or it is logged and counted without a fill (Math.random() above the fill probability,
\* or the fill refused), or a fill is drawn and the handler suspends in
\* updateNetPosition.  pc "sideDone" marks a side that ended without an await.
PaperSide(rq, side) ==
  LET q == rq.skew
      paused == IF side = "BUY" THEN q.pauseBuy ELSE q.pauseSell
      size == IF side = "BUY" THEN q.buySize ELSE q.sellSize
      safeFillSize == Min(size, rq.cfg.maxPosition - Abs(q.netPos))
      newPos(f) == IF side = "BUY" THEN q.netPos + f ELSE q.netPos - f
      fills == {f \in FillSizes(safeFillSize) :
                  ~(f <= 0 \/ Abs(newPos(f)) > rq.cfg.maxPosition)}
      line == [market |-> Head(rq.selectedMarkets), side |-> side, netPos |-> q.netPos,
               price |-> IF side = "BUY" THEN q.buyPrice ELSE q.sellPrice, size |-> size]
      logged == [rq EXCEPT !.logs = @ \cup {line}]
  IN IF paused THEN {[rq EXCEPT !.pc = "sideDone"]}
     ELSE {[logged EXCEPT !.pc = "sideDone", !.orders = @ + 1]}
          \cup (IF dailyRow.trade_count < MaxTrades * Len(markets)
                THEN {[logged EXCEPT !.pc = "posRead", !.side = side, !.actualFill = f] :
                        f \in fills}
                ELSE {})

\* the SELL side, then the next market
PaperEnterSell(rq) ==
  {IF x.pc = "sideDone" THEN NextMarket(x) ELSE x : x \in PaperSide(rq, "SELL")}
\* the BUY side, then the SELL side
PaperEnterBuy(rq) ==
  UNION {IF x.pc = "sideDone" THEN PaperEnterSell(x) ELSE {x} : x \in PaperSide(rq, "BUY")}

\* getOpenOrders' array: the engine's open orders, oldest first
RECURSIVE SortedOrders(_)
SortedOrders(os) ==
  IF os = {} THEN <<>>
  ELSE LET first == CHOOSE o \in os : \A p \in os : o.id <= p.id
       IN <<first>> \o SortedOrders(os \ {first})

\* the ids of a list of orders
RECURSIVE OrderIds(_)
OrderIds(os) == IF os = <<>> THEN <<>> ELSE <<Head(os).id>> \o OrderIds(Tail(os))

\* the live side with a paused side cancelling only its first order
LiveSidePausedCancelsFirst(rq, side, done) ==
  LET q == rq.skew
      paused == IF side = "BUY" THEN q.pauseBuy ELSE q.pauseSell
      target == IF side = "BUY" THEN q.safeBuyPrice ELSE q.safeSellPrice
      mine == SelectSeq(rq.existingOrders,
                        LAMBDA o : o.asset_id = Head(rq.selectedMarkets) /\ o.side = side)
      ids == OrderIds(mine)
  IN IF paused
     THEN (IF mine = <<>> THEN done
           ELSE [rq EXCEPT !.pc = "extras", !.side = side, !.pending = <<ids[1]>>])
     ELSE IF mine # <<>> /\ IsWithinTolerance(mine[1].price, target)
     THEN (IF Len(mine) = 1 THEN done
           ELSE [rq EXCEPT !.pc = "extras", !.side = side, !.pending = Tail(ids)])
     ELSE IF mine # <<>>
     THEN [rq EXCEPT !.pc = "cancel", !.side = side, !.pending = ids]
     ELSE [rq EXCEPT !.pc = "place", !.side = side, !.pending = <<>>]

\* the live side with a kept order's duplicates left alone
LiveSideKeepsDuplicates(rq, side, done) ==
  LET q == rq.skew
      paused == IF side = "BUY" THEN q.pauseBuy ELSE q.pauseSell
      target == IF side = "BUY" THEN q.safeBuyPrice ELSE q.safeSellPrice
      mine == SelectSeq(rq.existingOrders,
                        LAMBDA o : o.asset_id = Head(rq.selectedMarkets) /\ o.side = side)
      ids == OrderIds(mine)
  IN IF paused
     THEN (IF mine = <<>> THEN done
           ELSE [rq EXCEPT !.pc = "extras", !.side = side, !.pending = ids])
     ELSE IF mine # <<>> /\ IsWithinTolerance(mine[1].price, target)
     THEN done
     ELSE IF mine # <<>>
     THEN [rq EXCEPT !.pc = "cancel", !.side = side, !.pending = ids]
     ELSE [rq EXCEPT !.pc = "place", !.side = side, !.pending = <<>>]

\* one side of the live branch, entered with the quote in rq.skew: the handler suspends
\* at the first venue call the side makes; done is what follows a side that makes none
LiveSide(rq, side, done) ==
  LET q == rq.skew
      paused == IF side = "BUY" THEN q.pauseBuy ELSE q.pauseSell
      target == IF side = "BUY" THEN q.safeBuyPrice ELSE q.safeSellPrice
      mine == SelectSeq(rq.existingOrders,
                        LAMBDA o : o.asset_id = Head(rq.selectedMarkets) /\ o.side = side)
      ids == OrderIds(mine)
  IN IF paused
     THEN (IF mine = <<>> THEN done
           ELSE [rq EXCEPT !.pc = "extras", !.side = side, !.pending = ids])
     ELSE IF mine # <<>> /\ IsWithinTolerance(mine[1].price, target)
     THEN (IF Len(mine) = 1 THEN done
           ELSE [rq EXCEPT !.pc = "extras", !.side = side, !.pending = Tail(ids)])
     ELSE IF mine # <<>>
     THEN [rq EXCEPT !.pc = "cancel", !.side = side, !.pending = ids]
     ELSE [rq EXCEPT !.pc = "place", !.side = side, !.pending = <<>>]

LiveEnterSell(rq) == LiveSide(rq, "SELL", NextMarket(rq))
LiveEnterBuy(rq) == LiveSide(rq, "BUY", LiveEnterSell(rq))
LiveSideDone(rq) == IF rq.side = "BUY" THEN LiveEnterSell(rq) ELSE NextMarket(rq)

\* what follows the quote of the current market: the paper branch draws its fills, the
\* live branch skips the market on an invalid grid or starts reconciling its BUY side
Quoted(rq) ==
  IF rq.cfg.paperTrading THEN PaperEnterBuy(rq)
  ELSE IF rq.skew.skip
  THEN {NextMarket([rq EXCEPT !.skipped = @ \cup {[market |-> Head(rq.selectedMarkets),
                                                   buy |-> rq.skew.safeBuyPrice,
                                                   sell |-> rq.skew.safeSellPrice]}])}
  ELSE {LiveEnterBuy(rq)}

\* step 5: getOpenOrders resolves (or throws: the snapshot stays empty)
OpenOrders(r) ==
  /\ req[r].pc = "openOrders"
  /\ \E ok \in BOOLEAN :
       SetReq(r, FirstMarket([req[r] EXCEPT
                                !.existingOrders = IF ok THEN SortedOrders(venue) ELSE <<>>,
                                !.calls = Append(@, Call("getOpenOrders", 0, "", 0, 0, 0,
                                                         ok))]))
  /\ UNCHANGED <<markets, dailyRow, positions, venue, nextOrderId, cyclesBegun, latched,
                 submitted>>
  /\ SrvFrame

\* the answers of getExternalPrice: null (the fetch threw or was refused) or the ticker's
\* price, here 0.5 or 97 in the units of a mid
ExternalPrices == {NoPrice, 500000, 97000000}

\* step 6, per market, with the oracle enabled on a crypto title: getExternalPrice
\* resolves; the log line of a price other than null is kept as the field extPrice
Oracle(r) ==
  /\ req[r].pc = "oracle"
  /\ \E extPrice \in ExternalPrices :
       SetReq(r, [req[r] EXCEPT !.pc = "market", !.extPrice = extPrice])
  /\ UNCHANGED <<markets, dailyRow, positions, venue, nextOrderId, cyclesBegun, latched,
                 submitted>>
  /\ SrvFrame

\* step 6, per market: getNetPosition is served, the quote is computed; the paper branch
\* draws its fills, the live branch checks the grid and starts reconciling
Market(r) ==
  /\ req[r].pc = "market"
  /\ \E nx \in Quoted([req[r] EXCEPT !.skew =
                           QuoteAfterOracle(Head(req[r].selectedMarkets), req[r].cfg,
                                            positions[Head(req[r].selectedMarkets)],
                                            req[r].extPrice),
                                     !.processed = Append(@, Head(req[r].selectedMarkets))]) :
       SetReq(r, nx)
  /\ UNCHANGED <<markets, dailyRow, positions, venue, nextOrderId, cyclesBegun, latched,
                 submitted>>
  /\ SrvFrame

\* updateNetPosition: its getNetPosition is served
PosRead(r) ==
  /\ req[r].pc = "posRead"
  /\ SetReq(r, [req[r] EXCEPT !.pc = "posWrite",
                              !.current = positions[Head(req[r].selectedMarkets)]])
  /\ UNCHANGED <<markets, dailyRow, positions, venue, nextOrderId, cyclesBegun, latched,
                 submitted>>
  /\ SrvFrame

\* the history of applied deltas after the upsert of delta on market m
Tallied(m, delta) == IF tally.on THEN [tally EXCEPT !.sum[m] = @ + delta] ELSE tally

\* updateNetPosition writing the position the quote was made from plus delta
PosWriteStale(r) ==
  /\ req[r].pc = "posWrite"
  /\ LET delta == IF req[r].side = "BUY" THEN req[r].actualFill ELSE -req[r].actualFill
     IN /\ positions' = [positions EXCEPT ![Head(req[r].selectedMarkets)] =
                                            req[r].skew.netPos + delta]
        /\ tally' = Tallied(Head(req[r].selectedMarkets), delta)
  /\ SetReq(r, [req[r] EXCEPT !.pc = "pnlRead"])
  /\ UNCHANGED <<markets, dailyRow, venue, nextOrderId, cyclesBegun, latched, submitted>>
  /\ UNCHANGED <<dashVars, headVars, dayRows, pnlHistory, errorLog, clientVars>>

\* ... its upsert of current + delta is served; upsertDailyPnl is called
PosWrite(r) ==
  /\ req[r].pc = "posWrite"
  /\ LET delta == IF req[r].side = "BUY" THEN req[r].actualFill ELSE -req[r].actualFill
     IN /\ positions' = [positions EXCEPT ![Head(req[r].selectedMarkets)] =
                                            req[r].current + delta]
        /\ tally' = Tallied(Head(req[r].selectedMarkets), delta)
  /\ SetReq(r, [req[r] EXCEPT !.pc = "pnlRead"])
  /\ UNCHANGED <<markets, dailyRow, venue, nextOrderId, cyclesBegun, latched, submitted>>
  /\ UNCHANGED <<dashVars, headVars, dayRows, pnlHistory, errorLog, clientVars>>

\* upsertDailyPnl(sb, spreadDecimal * actualFill * 0.5, totalCapital, 1, false): its
\* getDailyPnl is served
PnlRead(r) ==
  /\ req[r].pc = "pnlRead"
  /\ SetReq(r, [req[r] EXCEPT !.pc = "pnlWrite", !.existing = dailyRow])
  /\ UNCHANGED <<markets, dailyRow, positions, venue, nextOrderId, cyclesBegun, latched,
                 submitted>>
  /\ SrvFrame

\* ... its upsert is served; the side is counted and the handler goes on
PnlWrite(r) ==
  /\ req[r].pc = "pnlWrite"
  /\ WriteRow(UpsertDailyPnl(req[r].existing, req[r].skew.dynamicBp * req[r].actualFill,
                             req[r].cfg.totalCapital, 1, FALSE))
  /\ LET rq == [req[r] EXCEPT !.orders = @ + 1, !.actualFill = 0]
     IN \E nx \in (IF rq.side = "BUY" THEN PaperEnterSell(rq) ELSE {NextMarket(rq)}) :
          SetReq(r, nx)
  /\ UNCHANGED <<markets, positions, venue, nextOrderId, cyclesBegun, submitted>>
  /\ SrvFrame

\* cancelOrder(existing.id) with a throw that ends the handler
LiveCancelAborts(r) ==
  /\ req[r].pc = "cancel"
  /\ \E ok \in BOOLEAN :
       /\ venue' = IF ok THEN {o \in venue : o.id # Head(req[r].pending)} ELSE venue
       /\ LET rq == [req[r] EXCEPT
                      !.pc = "place", !.pending = Tail(@),
                      !.calls = Append(@, Call("cancelOrder", Head(req[r].selectedMarkets),
                                               req[r].side, Head(req[r].pending), 0, 0,
                                               ok)),
                      !.trades = IF ok
                                 THEN Append(@, Trade("cancel", Head(req[r].selectedMarkets),
                                                      req[r].side, Len(req[r].calls) + 1))
                                 ELSE @]
          IN SetReq(r, IF ok THEN rq ELSE Returned(rq, rq.orders, FALSE))
  /\ UNCHANGED <<markets, dailyRow, positions, nextOrderId, cyclesBegun, latched, submitted>>
  /\ SrvFrame

\* cancelOrder(existing.id) resolves (logTrade then inserts a "cancel" row) or throws
\* (the catch only pushes a log line); createAndPostOrder is called either way
LiveCancel(r) ==
  /\ req[r].pc = "cancel"
  /\ \E ok \in BOOLEAN :
       /\ venue' = IF ok THEN {o \in venue : o.id # Head(req[r].pending)} ELSE venue
       /\ SetReq(r, [req[r] EXCEPT
                       !.pc = "place", !.pending = Tail(@),
                       !.calls = Append(@, Call("cancelOrder", Head(req[r].selectedMarkets),
                                                req[r].side, Head(req[r].pending), 0, 0,
                                                ok)),
                       !.trades = IF ok
                                  THEN Append(@, Trade("cancel", Head(req[r].selectedMarkets),
                                                       req[r].side, Len(req[r].calls) + 1))
                                  ELSE @])
  /\ UNCHANGED <<markets, dailyRow, positions, nextOrderId, cyclesBegun, latched, submitted>>
  /\ SrvFrame

\* createAndPostOrder resolves (the order rests at the venue and is counted; logTrade
\* inserts a "place" row) or throws (logTrade inserts an "error" row, not awaited);
\* then the side's surplus orders are cancelled
LivePlace(r) ==
  /\ req[r].pc = "place"
  /\ LET rq == req[r]
         order == [asset_id |-> Head(rq.selectedMarkets), side |-> rq.side,
                   price |-> IF rq.side = "BUY" THEN rq.skew.safeBuyPrice
                             ELSE rq.skew.safeSellPrice,
                   size |-> IF rq.side = "BUY" THEN rq.skew.buySize ELSE rq.skew.sellSize]
         after(x) == IF x.pending = <<>> THEN LiveSideDone(x) ELSE [x EXCEPT !.pc = "extras"]
     IN /\ submitted' = submitted \cup {[tokenID |-> order.asset_id, side |-> order.side,
                                         price |-> order.price,
                                         tickSize |-> rq.skew.tickSize]}
        /\ \E ok \in BOOLEAN :
             LET called == [rq EXCEPT
                              !.calls =
                                Append(@, Call("createAndPostOrder", order.asset_id,
                                               order.side, 0, order.price, order.size, ok)),
                              !.trades =
                                Append(@, Trade(IF ok THEN "place" ELSE "error",
                                                order.asset_id, order.side,
                                                Len(rq.calls) + 1))]
             IN IF ok
                THEN /\ venue' = venue \cup {[id |-> nextOrderId,
                                              asset_id |-> order.asset_id,
                                              side |-> order.side, price |-> order.price,
                                              size |-> order.size]}
                     /\ nextOrderId' = nextOrderId + 1
                     /\ SetReq(r, after([called EXCEPT !.orders = @ + 1]))
                ELSE /\ UNCHANGED <<venue, nextOrderId>>
                     /\ SetReq(r, after(called))
  /\ UNCHANGED <<markets, dailyRow, positions, cyclesBegun, latched>>
  /\ SrvFrame

\* one cancelOrder of a surplus order (or of an order of a paused side), errors ignored;
\* nothing is written to bot_trade_log
LiveExtra(r) ==
  /\ req[r].pc = "extras"
  /\ \E ok \in BOOLEAN :
       /\ venue' = IF ok THEN {o \in venue : o.id # Head(req[r].pending)} ELSE venue
       /\ LET rq == [req[r] EXCEPT
                      !.pending = Tail(@),
                      !.calls = Append(@, Call("cancelOrder", Head(req[r].selectedMarkets),
                                               req[r].side, Head(req[r].pending), 0, 0,
                                               ok))]
          IN SetReq(r, IF rq.pending = <<>> THEN LiveSideDone(rq) ELSE rq)
  /\ UNCHANGED <<markets, dailyRow, positions, nextOrderId, cyclesBegun, latched, submitted>>
  /\ SrvFrame

\* case "reset_positions": every row of bot_positions is deleted
ResetPositions ==
  /\ positions' = [m \in DOMAIN positions |-> 0]
  /\ UNCHANGED <<markets, dailyRow, venue, nextOrderId, req, cyclesBegun, latched, submitted>>
  /\ SrvFrame

\* case "cancel_all": client.cancelAll() resolves
CancelAll ==
  /\ venue' = {}
  /\ UNCHANGED <<markets, dailyRow, positions, nextOrderId, req, cyclesBegun, latched,
                 submitted>>
  /\ SrvFrame


(***************************************************************************)
(* Environments: the catalogue, the books, the parameters and the stored   *)
(* rows the specifications start from.                                      *)
(***************************************************************************)
\* a liquid market (depth 100, 24h volume 5000, no sponsor, no keyword) with the given
\* best bid, best ask and tick_size field (0: the book carries none)
Book(bid, ask, tickRaw) ==
  [failed |-> FALSE, bid |-> bid, ask |-> ask, last |-> 0, bidSize |-> 50, askSize |-> 50,
   tickRaw |-> tickRaw, volume24h |-> 5000, sponsorPool |-> 0, title |-> "other",
   negative |-> FALSE]

\* the request body of run_cycle; the parameters left at 0 take their defaults
Params(liveTrading, totalCapital, orderSize, maxPosition) ==
  [maxMarkets |-> 0, spread |-> 0, orderSize |-> orderSize, liveTrading |-> liveTrading,
   totalCapital |-> totalCapital, maxPosition |-> maxPosition, minSponsorPool |-> 0,
   minLiquidityDepth |-> 0, minVolume24h |-> 0, aggressiveShortTerm |-> TRUE,
   useExternalOracle |-> FALSE]

\* today's row as an earlier day of trading left it, breaker not set
Row(realized) ==
  [exists |-> TRUE, realized_pnl |-> realized, total_capital |-> 100, trade_count |-> 0,
   circuit_breaker_triggered |-> FALSE]

InitSrv(catalogues, rows, positionValues) ==
  /\ markets \in catalogues
  /\ dailyRow \in rows
  /\ positions \in [DOMAIN markets -> positionValues]
  /\ venue = {}
  /\ nextOrderId = 1
  /\ req = [r \in Requests |-> IdleReq]
  /\ cyclesBegun = 0
  /\ latched = FALSE
  /\ submitted = {}

\* no request is ever made (the specifications of the two drivers)
InitSrvIdle == InitSrv({<<>>}, {NoRow}, {0})

\* The store under concurrent requests: paper cycles on one market, with a capital of
\* 100 or 150 USDC, the day's PnL at nothing, at exactly -3% of 100 or at -3.5% of 100.
StoreCatalogues == {<<Book(400000, 420000, 10000)>>}
StoreParams == {Params(FALSE, c, 1, 0) : c \in {100, 150}}
StoreRows == {NoRow, Row(-60000), Row(-70000)}

NextStore ==
  \/ \E r \in Requests :
       \/ \E params \in StoreParams : RunCycle(r, params)
       \/ AutoRepair(r)
       \/ BreakerCheck(r)
       \/ LatchRead(r)
       \/ LatchWrite(r)
       \/ FetchMarkets(r)
       \/ Enrich(r)
       \/ Market(r)
       \/ PosRead(r)
       \/ PosWrite(r)
       \/ PnlRead(r)
       \/ PnlWrite(r)
  \/ ResetPositions

\* Paper cycles one request at a time, on the same market and rows, with an order size
\* of 1 or the default 6.
PaperParams == {Params(FALSE, c, os, 0) : c \in {100, 150}, os \in {0, 1}}

NextPaper ==
  \/ \E params \in PaperParams : RunCycle(1, params)
  \/ AutoRepair(1)
  \/ BreakerCheck(1)
  \/ LatchRead(1)
  \/ LatchWrite(1)
  \/ FetchMarkets(1)
  \/ Enrich(1)
  \/ Market(1)
  \/ PosRead(1)
  \/ PosWrite(1)
  \/ PnlRead(1)
  \/ PnlWrite(1)
  \/ ResetPositions

\* Live quoting, one request at a time, on two markets: an ordinary book; a book on
\* the 0.001 grid near 1 that carries no tick_size (fallback 0.01); books whose
\* tick_size is 0.1 or 0.3; stored positions that put a side in skew or in pause.
LiveCatalogues ==
  {<<Book(400000, 420000, 10000), Book(994000, 996000, 0)>>,
   <<Book(80000, 100000, 100000), Book(400000, 420000, 1000)>>,
   <<Book(790000, 810000, 300000), Book(400000, 420000, 10000)>>}
LiveParams == {Params(TRUE, 65, 0, mp) : mp \in {0, 10}}
LiveRows == {NoRow, Row(-50000)}
LivePositions == {0, 12, 20, -35}

NextLive ==
  \/ \E params \in LiveParams : cyclesBegun < MaxLiveCycles /\ RunCycle(1, params)
  \/ AutoRepair(1)
  \/ BreakerCheck(1)
  \/ LatchRead(1)
  \/ LatchWrite(1)
  \/ FetchMarkets(1)
  \/ Enrich(1)
  \/ OpenOrders(1)
  \/ Market(1)
  \/ LiveCancel(1)
  \/ LivePlace(1)
  \/ LiveExtra(1)
  \/ ResetPositions
  \/ CancelAll

\* One cycle, paper or live, from each of a range of inputs: a single market whose mid
\* is ordinary, exactly 0.92 or 0.08, or just beyond; sponsor pools on both sides of
\* each spread threshold; books of range1h below 2, between 2 and 4 and above 4; a
\* capital of 10, 20 or 65; stored positions inside, at and beyond the position limit.
BookWith(bid, ask, sponsorPool) ==
  [Book(bid, ask, 10000) EXCEPT !.sponsorPool = sponsorPool]
QuoteCatalogues ==
  {<<BookWith(400000, 420000, sp)>> : sp \in {0, 600, 1500, 2500}}
  \cup {<<Book(b[1], b[2], 10000)>> :
          b \in {<<910000, 930000>>, <<920000, 930000>>, <<70000, 90000>>,
                 <<70000, 80000>>, <<400000, 410000>>, <<400000, 404000>>}}
QuoteParams ==
  {[Params(live, c, os, mp) EXCEPT !.spread = sp] :
     live \in BOOLEAN, c \in {10, 20, 65}, os \in {0, 1}, mp \in {0, 10},
     sp \in {0, 3, 60, 100}}
QuotePositions == {0, 6, 10, -10, 12, -12}

NextQuote ==
  \/ \E params \in QuoteParams : cyclesBegun = 0 /\ RunCycle(1, params)
  \/ AutoRepair(1)
  \/ BreakerCheck(1)
  \/ FetchMarkets(1)
  \/ Enrich(1)
  \/ OpenOrders(1)
  \/ Market(1)
  \/ PosRead(1)
  \/ PosWrite(1)
  \/ PnlRead(1)
  \/ PnlWrite(1)
  \/ LivePlace(1)

\* Live cycles one after another, nothing else touching the venue or the positions, on
\* two markets: one on the 0.001 grid (targets 0.406 / 0.414, or 0.405 / 0.413 under
\* long skew) and one on the 0.01 grid.  The venue starts empty or with orders earlier
\* cycles left on the first market, duplicates included; the first market's position
\* is 0, 8 (long skew at a limit of 10) or 12 (BUY paused at a limit of 10).
ReconcileCatalogue == <<Book(400000, 420000, 1000), Book(500000, 520000, 10000)>>
RestingOrder(id, side, price) ==
  [id |-> id, asset_id |-> 1, side |-> side, price |-> price, size |-> 5]
ReconcileVenues ==
  {{},
   {RestingOrder(1, "BUY", 406000), RestingOrder(2, "BUY", 405000),
    RestingOrder(3, "SELL", 414000)},
   {RestingOrder(1, "BUY", 405000), RestingOrder(2, "BUY", 406000),
    RestingOrder(3, "SELL", 413000)},
   {RestingOrder(1, "SELL", 414000), RestingOrder(2, "SELL", 414000),
    RestingOrder(3, "SELL", 400000)}}
ReconcilePositions == {<<0, 0>>, <<8, 0>>, <<12, 0>>}

InitReconcile ==
  /\ markets = ReconcileCatalogue
  /\ dailyRow = NoRow
  /\ positions \in ReconcilePositions
  /\ venue \in ReconcileVenues
  /\ nextOrderId = 4
  /\ req = [r \in Requests |-> IdleReq]
  /\ cyclesBegun = 0
  /\ latched = FALSE
  /\ submitted = {}

NextReconcile ==
  \/ \E params \in LiveParams : cyclesBegun < MaxLiveCycles /\ RunCycle(1, params)
  \/ AutoRepair(1)
  \/ BreakerCheck(1)
  \/ FetchMarkets(1)
  \/ Enrich(1)
  \/ OpenOrders(1)
  \/ Market(1)
  \/ LiveCancel(1)
  \/ LivePlace(1)
  \/ LiveExtra(1)

\* Paper cycles one after another with one configuration, nothing else touching the
\* store, on two markets: a position limit of 4, an order size of 2 or 5, stored
\* positions that start within the limit (flat, or in long or short skew one unit from
\* the limit), up to two fills a day.
FillCatalogue == <<Book(400000, 420000, 10000), Book(600000, 620000, 10000)>>
FillParams == {Params(FALSE, 65, os, 4) : os \in {2, 5}}
FillPositions == {-3, 0, 3}

\* the configuration of the cycle in flight, else of the last cycle
FixedConfig == IF req[1].pc # "idle" THEN req[1].cfg ELSE req[1].result.cfg

NextFills ==
  \/ \E params \in FillParams :
       /\ FixedConfig \in {NoCfg, NormalizeConfig(params)}
       /\ RunCycle(1, params)
  \/ AutoRepair(1)
  \/ BreakerCheck(1)
  \/ FetchMarkets(1)
  \/ Enrich(1)
  \/ Market(1)
  \/ PosRead(1)
  \/ PosWrite(1)
  \/ PnlRead(1)
  \/ PnlWrite(1)

\* One live cycle over a catalogue of two listings, on an empty venue.  A listing has
\* a top-tier or a crypto keyword in its title; a 24h volume of 1500, 600000 or 700000
\* (the score caps it at 500000); and it is plain (book 0.40 / 0.42), sponsored (pool
\* 600), penalised (a negative keyword in the title, book 0.47 / 0.53: a coin flip with
\* a spread above 10%) or penalised and sponsored.  The cycle selects one market or two,
\* with aggressiveShortTerm on and the default depth floor, or off and a floor of 200.
Listing(title, volume24h, negative, sponsorPool, bid, ask) ==
  [Book(bid, ask, 10000) EXCEPT !.title = title, !.volume24h = volume24h,
                                !.negative = negative, !.sponsorPool = sponsorPool]
SelectListings ==
  {Listing(t, v, p[1], p[2], p[3], p[4]) :
     t \in {"tier1", "crypto"}, v \in {1500, 600000, 700000},
     p \in {<<FALSE, 0, 400000, 420000>>, <<FALSE, 600, 400000, 420000>>,
            <<TRUE, 0, 470000, 530000>>, <<TRUE, 600, 470000, 530000>>}}
SelectCatalogues == {<<a, b>> : a, b \in SelectListings}
SelectParams ==
  {[Params(TRUE, 65, 0, 0) EXCEPT !.maxMarkets = n, !.aggressiveShortTerm = k[1],
                                  !.minLiquidityDepth = k[2]] :
     n \in {1, 2}, k \in {<<TRUE, 0>>, <<FALSE, 200>>}}

NextSelect ==
  \/ \E params \in SelectParams : cyclesBegun = 0 /\ RunCycle(1, params)
  \/ AutoRepair(1)
  \/ BreakerCheck(1)
  \/ FetchMarkets(1)
  \/ Enrich(1)
  \/ OpenOrders(1)
  \/ Market(1)
  \/ LivePlace(1)

\* One cycle, paper or live, with the oracle flag off or on, over a BTC market and a
\* market without crypto keyword, on an empty venue; the oracle answers null, 0.5 or
\* 97.  Stored positions are flat or in long or short skew at a limit of 10.
OracleCatalogue ==
  <<Listing("crypto", 5000, FALSE, 0, 400000, 420000),
    Listing("other", 5000, FALSE, 0, 600000, 620000)>>
OracleParams ==
  {[Params(live, 65, 0, 10) EXCEPT !.useExternalOracle = oracle] :
     live \in BOOLEAN, oracle \in BOOLEAN}
OraclePositions == {0, 8, -8}

NextOracle ==
  \/ \E params \in OracleParams : cyclesBegun = 0 /\ RunCycle(1, params)
  \/ AutoRepair(1)
  \/ BreakerCheck(1)
  \/ FetchMarkets(1)
  \/ Enrich(1)
  \/ OpenOrders(1)
  \/ Oracle(1)
  \/ Market(1)
  \/ PosRead(1)
  \/ PosWrite(1)
  \/ PnlRead(1)
  \/ PnlWrite(1)
  \/ LivePlace(1)


\* updateNetPosition under concurrent requests: paper cycles of one configuration on one
\* market served two at a time, nothing else writing the positions, the applied deltas
\* summed.
UpsertParams == {Params(FALSE, 100, 1, 0)}

NextUpserts ==
  \E r \in Requests :
    \/ \E params \in UpsertParams : RunCycle(r, params)
    \/ AutoRepair(r)
    \/ BreakerCheck(r)
    \/ FetchMarkets(r)
    \/ Enrich(r)
    \/ Market(r)
    \/ PosRead(r)
    \/ PosWrite(r)
    \/ PnlRead(r)
    \/ PnlWrite(r)

\* A live request and a paper request served at once on one market and one daily row:
\* slot 1 runs live cycles with a capital of 100, slot 2 paper cycles with a capital of
\* 150; the day's PnL is at nothing or at -3.5% of 100.
MixedParams == <<Params(TRUE, 100, 1, 0), Params(FALSE, 150, 1, 0)>>
MixedRows == {NoRow, Row(-70000)}

NextMixed ==
  \E r \in {1, 2} :
    \/ RunCycle(r, MixedParams[r])
    \/ AutoRepair(r)
    \/ BreakerCheck(r)
    \/ LatchRead(r)
    \/ LatchWrite(r)
    \/ FetchMarkets(r)
    \/ Enrich(r)
    \/ OpenOrders(r)
    \/ Market(r)
    \/ PosRead(r)
    \/ PosWrite(r)
    \/ PnlRead(r)
    \/ PnlWrite(r)
    \/ LivePlace(r)

(***************************************************************************)
(* Part IV. The edge function's other handlers and its process-wide state  *)
(***************************************************************************)
\* dates with a row in bot_daily_pnl before the model stops adding days
MaxDays == 32
\* `.limit(30)` of get_pnl_history
HistoryLimit == 30

\* no get_pnl_history response yet
NoHistory == [rows |-> <<>>, of |-> -1]
\* the deltas are not summed
NoTally == [on |-> FALSE, start |-> <<>>, sum |-> <<>>]

\* requests inside getTradingClient at once
MaxCallers == 3
\* getTradingClient calls before the model stops
MaxClientCalls == 4
Callers == 1..MaxCallers
\* `let cachedClient: any = null`
NoClient == 0

\* a fresh isolate: no row, no response, nothing caught, no client
InitProcess ==
  /\ dayRows = 0
  /\ pnlHistory = NoHistory
  /\ errorLog = <<>>
  /\ cachedClient = NoClient
  /\ clientsBuilt = 0
  /\ clientPc = [c \in Callers |-> "idle"]
  /\ client = [c \in Callers |-> NoClient]
  /\ clientCalls = 0

InitEdge == InitProcess /\ tally = NoTally

\* the view bot_cumulative_pnl over n daily rows: one row per date, `ORDER BY date DESC`
\* (a row is kept as its date; the k-th date with a row is date k)
RECURSIVE BotCumulativePnl(_)
BotCumulativePnl(n) == IF n = 0 THEN <<>> ELSE <<n>> \o BotCumulativePnl(n - 1)

\* `.order("date", {ascending: true})`: the rows by ascending date
RECURSIVE OrderAscending(_)
OrderAscending(rows) ==
  IF rows = <<>> THEN <<>>
  ELSE LET i == CHOOSE k \in 1..Len(rows) : \A j \in 1..Len(rows) : rows[k] <= rows[j]
       IN <<rows[i]>> \o OrderAscending(SubSeq(rows, 1, i - 1)
                                          \o SubSeq(rows, i + 1, Len(rows)))

\* the rows by descending date, most recent first
RECURSIVE OrderDescending(_)
OrderDescending(rows) ==
  IF rows = <<>> THEN <<>>
  ELSE LET i == CHOOSE k \in 1..Len(rows) : \A j \in 1..Len(rows) : rows[k] >= rows[j]
       IN <<rows[i]>> \o OrderDescending(SubSeq(rows, 1, i - 1)
                                           \o SubSeq(rows, i + 1, Len(rows)))

\* `sb.from("bot_cumulative_pnl").select("*").order("date", {ascending: true}).limit(30)`
PnlHistoryQuery(n) == Slice(OrderAscending(BotCumulativePnl(n)), HistoryLimit)

\* upsertDailyPnl of the first write of a new UTC date inserts that date's row
NewDailyRow ==
  /\ dayRows < MaxDays
  /\ dayRows' = dayRows + 1
  /\ UNCHANGED <<pnlHistory, errorLog, tally, clientVars>>
  /\ EdgeFrame

\* case "get_pnl_history": the query is served and `data || []` is returned (a failed
\* query leaves data null)
GetPnlHistory ==
  /\ \E ok \in BOOLEAN :
       pnlHistory' = [rows |-> IF ok THEN PnlHistoryQuery(dayRows) ELSE <<>>,
                      of |-> IF ok THEN dayRows ELSE 0]
  /\ UNCHANGED <<dayRows, errorLog, tally, clientVars>>
  /\ EdgeFrame

NextHistory == NewDailyRow \/ GetPnlHistory

\* values caught before the model stops
MaxErrors == 2

\* a JavaScript value as a catch clause can receive it: its kind and, for an Error, its
\* message, for a string or a number, its text
Value(kind, text) == [kind |-> kind, text |-> text]
ThrownValues ==
  {Value("Error", t) : t \in {"", "Gamma API error: 500", "not enough balance"}}
  \cup {Value("string", t) : t \in {"", "timeout"}}
  \cup {Value("number", t) : t \in {"0", "429"}}
  \cup {Value(k, "") : k \in {"object", "circular", "array", "null", "undefined",
                               "boolean", "function", "symbol", "bigint"}}

\* JSON.stringify(e): a string; the value undefined for undefined, a function or a
\* symbol; a TypeError for a circular structure or a BigInt
JsonStringify(e) ==
  IF e.kind \in {"undefined", "function", "symbol"} THEN "undefined"
  ELSE IF e.kind \in {"circular", "bigint"} THEN "throws"
  ELSE "string"

\* getErrorMessage: the JavaScript type of what it returns and where the text is from
GetErrorMessage(e) ==
  IF e.kind = "Error" THEN [type |-> "string", from |-> "message"]
  ELSE IF e.kind = "string" THEN [type |-> "string", from |-> "value"]
  ELSE IF JsonStringify(e) = "throws" THEN [type |-> "string", from |-> "String"]
  ELSE [type |-> JsonStringify(e), from |-> "JSON.stringify"]

\* a catch clause of the edge function normalises the value it caught
Catch(e) ==
  /\ Len(errorLog) < MaxErrors
  /\ errorLog' = Append(errorLog, [thrown |-> e, message |-> GetErrorMessage(e)])
  /\ UNCHANGED <<dayRows, pnlHistory, tally, clientVars>>
  /\ EdgeFrame

NextErrors == \E e \in ThrownValues : Catch(e)

\* getTradingClient up to its first await: the key is set; a cached client is returned
\* at once, else the temporary client is built and createOrDeriveApiKey is awaited
GetTradingClient(c) ==
  /\ clientPc[c] = "idle"
  /\ clientCalls < MaxClientCalls
  /\ clientCalls' = clientCalls + 1
  /\ clientPc' = [clientPc EXCEPT ![c] = IF cachedClient # NoClient THEN "idle"
                                         ELSE "derive"]
  /\ client' = [client EXCEPT ![c] = cachedClient]
  /\ UNCHANGED <<cachedClient, clientsBuilt, dayRows, pnlHistory, errorLog, tally>>
  /\ EdgeFrame

\* createOrDeriveApiKey resolves: the main client is constructed and assigned to
\* cachedClient; or it throws and getTradingClient rejects
DeriveSettles(c) ==
  /\ clientPc[c] = "derive"
  /\ clientPc' = [clientPc EXCEPT ![c] = "idle"]
  /\ \E ok \in BOOLEAN :
       IF ok
       THEN /\ clientsBuilt' = clientsBuilt + 1
            /\ cachedClient' = clientsBuilt + 1
            /\ client' = [client EXCEPT ![c] = clientsBuilt + 1]
       ELSE UNCHANGED <<clientsBuilt, cachedClient, client>>
  /\ UNCHANGED <<clientCalls, dayRows, pnlHistory, errorLog, tally>>
  /\ EdgeFrame

NextClient == \E c \in Callers : GetTradingClient(c) \/ DeriveSettles(c)

vars == <<dashVars, headVars, srvVars, edgeVars>>

\* the dashboard alone (no headless process runs)
InitSpecDash == InitDash /\ InitHeadless /\ InitEdge /\ hPaper /\ InitSrvIdle
SpecDash == InitSpecDash /\ [][NextDash]_vars

\* the dashboard with the clock running
SpecDashClock == InitSpecDash /\ [][NextDashClock]_vars

\* the headless process alone (no dashboard is open)
InitSpecHeadless == InitHeadless /\ InitDash /\ InitEdge /\ InitSrvIdle
SpecHeadless == InitSpecHeadless /\ [][NextHeadless]_vars

\* Part III, the store under concurrent requests
InitSpecStore ==
  InitDash /\ InitHeadless /\ InitEdge /\ hPaper /\ InitSrv(StoreCatalogues, StoreRows, {0})
SpecStore == InitSpecStore /\ [][NextStore]_vars

\* Part III, paper cycles one at a time
InitSpecPaper ==
  InitDash /\ InitHeadless /\ InitEdge /\ hPaper /\ InitSrv(StoreCatalogues, StoreRows, {0})
SpecPaper == InitSpecPaper /\ [][NextPaper]_vars

\* Part III, live quoting
InitSpecLive ==
  InitDash /\ InitHeadless /\ InitEdge /\ hPaper /\ InitSrv(LiveCatalogues, LiveRows, LivePositions)
SpecLive == InitSpecLive /\ [][NextLive]_vars

\* Part III, one cycle from each input
InitSpecQuote ==
  InitDash /\ InitHeadless /\ InitEdge /\ hPaper /\ InitSrv(QuoteCatalogues, {NoRow}, QuotePositions)
SpecQuote == InitSpecQuote /\ [][NextQuote]_vars

\* Part III, consecutive paper cycles with one configuration
InitSpecFills ==
  InitDash /\ InitHeadless /\ InitEdge /\ hPaper /\ InitSrv({FillCatalogue}, {NoRow}, FillPositions)
SpecFills == InitSpecFills /\ [][NextFills]_vars

\* Part III, scoring and selection
InitSpecSelect == InitDash /\ InitHeadless /\ InitEdge /\ hPaper /\ InitSrv(SelectCatalogues, {NoRow}, {0})
SpecSelect == InitSpecSelect /\ [][NextSelect]_vars

\* Part III, one cycle with and without the external oracle
InitSpecOracle ==
  InitDash /\ InitHeadless /\ InitEdge /\ hPaper /\ InitSrv({OracleCatalogue}, {NoRow}, OraclePositions)
SpecOracle == InitSpecOracle /\ [][NextOracle]_vars

\* Part IV, the PnL history
InitSpecHistory == InitDash /\ InitHeadless /\ InitEdge /\ hPaper /\ InitSrvIdle
SpecHistory == InitSpecHistory /\ [][NextHistory]_vars

\* Part IV, the error normaliser
InitSpecErrors == InitDash /\ InitHeadless /\ InitEdge /\ hPaper /\ InitSrvIdle
SpecErrors == InitSpecErrors /\ [][NextErrors]_vars

\* Part III, updateNetPosition under concurrent requests
InitSpecUpserts ==
  /\ InitDash /\ InitHeadless /\ hPaper /\ InitSrv(StoreCatalogues, {NoRow}, {0, 2})
  /\ InitProcess
  /\ tally = [on |-> TRUE, start |-> positions, sum |-> [m \in DOMAIN markets |-> 0]]
SpecUpserts == InitSpecUpserts /\ [][NextUpserts]_vars

\* Part IV, the venue client
InitSpecClient == InitDash /\ InitHeadless /\ InitEdge /\ hPaper /\ InitSrvIdle
SpecClient == InitSpecClient /\ [][NextClient]_vars

\* Part III, a live and a paper request served at once
InitSpecMixed ==
  InitDash /\ InitHeadless /\ InitEdge /\ hPaper /\ InitSrv(StoreCatalogues, MixedRows, {0})
SpecMixed == InitSpecMixed /\ [][NextMixed]_vars

\* Part III, consecutive live cycles
InitSpecReconcile == InitDash /\ InitHeadless /\ InitEdge /\ hPaper /\ InitReconcile
SpecReconcile == InitSpecReconcile /\ [][NextReconcile]_vars

(***************************************************************************)
(* Claims about the dashboard driver                                       *)
(***************************************************************************)

\* C1: at most one run_cycle request of the dashboard is in flight at any time,
\* whatever the interleaving of timer ticks, Start/Stop clicks and the start-time cycle.
C1_AtMostOneInFlight == InFlightCount <= 1

\* C1 witness: a tick was dropped by the guard - a request is in flight, a timer is
\* live (so ticks keep firing into the running cycle) and still only one request exists.
C1_Witness == cycleInFlightRef /\ TimerActive /\ InFlightCount = 1

\* C7: whenever a run_cycle request settles (normal, circuit-breaker or thrown error),
\* the in-flight flag is false afterwards.
C7_FlagReleasedOnSettle ==
  [][InFlightCount' < InFlightCount => ~cycleInFlightRef']_vars

\* C7 witness: a request that threw has settled and the flag is released.
C7_Witness == lastOutcome = "error" /\ ~cycleInFlightRef /\ InFlightCount = 0

\* C8 (as claimed): once stopBot has completed, no run_cycle request is started
\* until startBot is invoked again.
C8_NoCycleAfterStop ==
  [][(stopCompleted /\ stopCompleted') => InFlightCount' <= InFlightCount]_vars

(***************************************************************************)
(* Claims about the headless driver                                        *)
(***************************************************************************)

\* C6 (as claimed): no two runCycle executions of the headless bot are ever active
\* at the same time, even when a cycle outlasts the timer interval.
C6_NoOverlapHeadless == Cardinality(HActiveCycles) <= 1

(***************************************************************************)
(* Claims about the edge function's risk governor (SpecStore, SpecPaper)   *)
(***************************************************************************)
\* the handler is past its breaker step and on its way to quoting
Proceeds(r) ==
  req[r].pc \in {"fetch", "enrich", "openOrders", "market", "posRead", "posWrite",
                 "pnlRead", "pnlWrite", "cancel", "place", "extras"}

\* the handler has computed a quote in this cycle and is acting on it
Quotes(r) == req[r].skew # NoQuote

\* C2 (as claimed): once today's row has had circuit_breaker_triggered = true, a
\* run_cycle whose breaker check is served afterwards never gets past that check: it
\* fetches no market, quotes nothing and simulates no fill.
C2_NoCycleProceedsOnceLatched ==
  \A r \in Requests : req[r].afterLatch => ~Proceeds(r)

\* C3 (as claimed): the step in which a latching cycle's upsert is served sets
\* circuit_breaker_triggered, leaves realized_pnl and trade_count of today's row as
\* they were, and the cycle returns ordersPlaced = 0, circuitBreaker = true.
C3_LatchLeavesPnlAndCount ==
  [][\A r \in Requests :
       (req[r].pc = "latchWrite" /\ req'[r].pc = "idle")
         => /\ dailyRow'.circuit_breaker_triggered
            /\ dailyRow'.realized_pnl = dailyRow.realized_pnl
            /\ dailyRow'.trade_count = dailyRow.trade_count
            /\ req'[r].result.ordersPlaced = 0
            /\ req'[r].result.circuitBreaker]_vars

\* C4 (amended): a run_cycle that reads a realized PnL strictly below -3% of its total
\* capital stops at the breaker step; every cycle that gets past the step read a PnL of
\* -3% of capital or more (20000 units per USDC: 3% of capital = 600 units per USDC).
C4_StopsStrictlyBelowLimit ==
  \A r \in Requests :
    Proceeds(r) => req[r].currentDailyPnl >= -(600 * req[r].cfg.totalCapital)

\* a cycle that read a PnL strictly below -3% is suspended in the latching upsert
C4_Witness ==
  \E r \in Requests :
    /\ req[r].pc = "latchWrite"
    /\ req[r].currentDailyPnl < -(600 * req[r].cfg.totalCapital)
    /\ req[r].orders = 0

\* C4 (as claimed): a cycle that quotes read a PnL strictly above -3% of capital, that
\* is, a PnL of exactly -3% stops the cycle too.
C4_StopsAtOrBelowLimit ==
  \A r \in Requests :
    Quotes(r) => req[r].currentDailyPnl > -(600 * req[r].cfg.totalCapital)

\* C5 (as claimed): once today's row has had circuit_breaker_triggered = true, the row
\* has it, whatever upsertDailyPnl calls of concurrent requests are interleaved.
C5_BreakerStaysLatched == latched => dailyRow.circuit_breaker_triggered

(***************************************************************************)
(* Claims about live quoting (SpecLive)                                    *)
(***************************************************************************)
\* C9 (as claimed): every order sent to the venue has a price that is a multiple of the
\* tick size it was sent with and lies in [tick, 1 - tick].
C9_OrderPricesOnTick ==
  \A o \in submitted :
    /\ o.price % o.tickSize = 0
    /\ o.tickSize <= o.price
    /\ o.price <= 1000000 - o.tickSize

MidOf(m) == GetMidPrice(markets[m]).mid

\* the [PAPER] quote lines of slot r, of its running cycle and of its last response,
\* each with the parameters of its cycle
PaperLines(r) ==
  {[line |-> l, cfg |-> req[r].cfg] : l \in req[r].logs}
  \cup {[line |-> l, cfg |-> req[r].result.cfg] : l \in req[r].result.logs}

\* C11: in a cycle that read a net position above max_position for a market no BUY is
\* simulated (paper) or sent (live) for it, and none below -max_position a SELL; on a
\* market that is not near-certain the BUY side is paused exactly when the position is
\* above max_position and the SELL side exactly when it is below -max_position, so a
\* position equal to +max_position or -max_position pauses nothing.
C11_PausedBeyondPositionLimit ==
  \A r \in Requests :
    /\ \A x \in PaperLines(r) :
         /\ x.line.side = "BUY" => x.line.netPos <= x.cfg.maxPosition
         /\ x.line.side = "SELL" => x.line.netPos >= -x.cfg.maxPosition
    /\ req[r].pc \in {"cancel", "place"} =>
         /\ req[r].side = "BUY" => req[r].skew.netPos <= req[r].cfg.maxPosition
         /\ req[r].side = "SELL" => req[r].skew.netPos >= -req[r].cfg.maxPosition
    /\ (Quotes(r) /\ MidOf(Head(req[r].selectedMarkets)) \in 80000..920000) =>
         /\ req[r].skew.pauseBuy <=> req[r].skew.netPos > req[r].cfg.maxPosition
         /\ req[r].skew.pauseSell <=> req[r].skew.netPos < -req[r].cfg.maxPosition

\* a paper cycle that read a position above max_position has ended with its SELL
\* quoted and no BUY
C11_Witness ==
  \E r \in Requests :
    /\ req[r].result.totalMarkets = 1
    /\ \E l \in req[r].result.logs :
         /\ l.side = "SELL" /\ l.netPos > req[r].result.cfg.maxPosition
         /\ \A k \in req[r].result.logs : k.side # "BUY"

PlaceCalls(r) ==
  {[call |-> req[r].calls[i], cfg |-> req[r].cfg] :
     i \in {j \in 1..Len(req[r].calls) : req[r].calls[j].op = "createAndPostOrder"}}
  \cup {[call |-> req[r].result.calls[i], cfg |-> req[r].result.cfg] :
          i \in {j \in 1..Len(req[r].result.calls) :
                   req[r].result.calls[j].op = "createAndPostOrder"}}

\* C13 (as claimed): the size of every order a cycle quotes (paper) or submits (live),
\* after the inventory-skew adjustment, is at most 8% of the cycle's total capital.
C13_SizesWithinEightPercent ==
  \A r \in Requests :
    /\ \A x \in PaperLines(r) : 100 * x.line.size <= 8 * x.cfg.totalCapital
    /\ \A x \in PlaceCalls(r) : 100 * x.call.size <= 8 * x.cfg.totalCapital

\* C14: the spread a cycle prices a market with is a whole number of basis points from
\* 5 to 60, whatever the base spread, the sponsor pool and the book's range, also after
\* the near-certain cap.
C14_SpreadWithinFiveAndSixty ==
  \A r \in Requests : Quotes(r) => req[r].skew.dynamicBp \in 5..60

\* a market is priced from a base spread of 100 bp, raised by the volatility factor and
\* clamped to 60
C14_Witness ==
  \E r \in Requests :
    Quotes(r) /\ req[r].cfg.baseBp = 100 /\ req[r].skew.dynamicBp = 60

\* C15: a market with mid > 0.92 is priced with a spread of 5 bp and gets no SELL, one
\* with mid < 0.08 is priced with 5 bp and gets no BUY (neither simulated nor sent); a
\* market with mid exactly 0.92 or 0.08 is priced with its dynamic spread and only the
\* position limit can pause a side of it.
C15_NearCertainOneSided ==
  \A r \in Requests :
    /\ \A x \in PaperLines(r) :
         /\ x.line.side = "SELL" => MidOf(x.line.market) <= 920000
         /\ x.line.side = "BUY" => MidOf(x.line.market) >= 80000
    /\ \A x \in PlaceCalls(r) :
         /\ x.call.side = "SELL" => MidOf(x.call.market) <= 920000
         /\ x.call.side = "BUY" => MidOf(x.call.market) >= 80000
    /\ Quotes(r) =>
         LET e == GetMidPrice(markets[Head(req[r].selectedMarkets)])
             q == req[r].skew
         IN /\ e.mid > 920000 => q.dynamicBp = 5 /\ q.pauseSell
            /\ e.mid < 80000 => q.dynamicBp = 5 /\ q.pauseBuy
            /\ e.mid \in {80000, 920000} =>
                 /\ q.dynamicBp =
                      CalcDynamicSpread(req[r].cfg.baseBp,
                                        markets[Head(req[r].selectedMarkets)].sponsorPool,
                                        e.rangeNum, e.rangeDen)
                 /\ q.pauseBuy <=> q.netPos > req[r].cfg.maxPosition
                 /\ q.pauseSell <=> q.netPos < -req[r].cfg.maxPosition

\* a live cycle on a market with mid 0.925 has ended: it sent a BUY and no SELL
C15_Witness ==
  \E r \in Requests :
    /\ req[r].result.totalMarkets = 1
    /\ \E x \in PlaceCalls(r) : x.call.side = "BUY" /\ MidOf(x.call.market) > 920000
    /\ \A x \in PlaceCalls(r) : x.call.side # "SELL"

(***************************************************************************)
(* Claims about the reconciler (SpecReconcile)                             *)
(***************************************************************************)
Sides == {"BUY", "SELL"}

\* slot r is free and holds the final response of a live cycle
LiveDone(r) ==
  /\ req[r].pc = "idle"
  /\ req[r].result.totalMarkets >= 0
  /\ ~req[r].result.cfg.paperTrading

\* the selected markets the cycle of a response did not skip
NotSkipped(selectedMarkets, skipped) ==
  {selectedMarkets[i] : i \in 1..Len(selectedMarkets)} \ {k.market : k \in skipped}
ProcessedMarkets(res) == NotSkipped(SelectedMarkets(res.cfg), res.skipped)

\* the quote the cycle of a response made of market m (positions do not move under
\* SpecReconcile once the cycle's auto-repair is done)
QuoteAt(res, m) == Quote(m, res.cfg, positions[m])
PausedAt(q, side) == IF side = "BUY" THEN q.pauseBuy ELSE q.pauseSell
TargetAt(q, side) == IF side = "BUY" THEN q.safeBuyPrice ELSE q.safeSellPrice
SizeAt(q, side) == IF side = "BUY" THEN q.buySize ELSE q.sellSize

\* myBuys / mySells: the snapshot's orders of a token and side
MineAt(res, m, side) ==
  SelectSeq(res.existingOrders, LAMBDA o : o.asset_id = m /\ o.side = side)

\* the cancelOrder and createAndPostOrder calls a cycle made for a token and side
CallsOn(res, m, side) ==
  SelectSeq(res.calls,
            LAMBDA c : c.op # "getOpenOrders" /\ c.market = m /\ c.side = side)

PlacesIn(cs) == SelectSeq(cs, LAMBDA c : c.op = "createAndPostOrder")

\* the first existing order is within 0.5 bp (50 millionths) of the target
FirstWithin(mine, target) == mine # <<>> /\ 2 * Abs(mine[1].price - target) <= 100

\* C16: a live cycle that follows, on unchanged market data and positions, a cycle
\* with the same parameters that ran to its end with every venue call succeeding, and
\* whose own venue calls all succeed, submits no order and reports ordersPlaced = 0.
C16_SecondCyclePlacesNothing ==
  \A r \in Requests :
    (LiveDone(r) /\ req[r].result.repeat /\ CleanRun(req[r].result)) =>
      /\ req[r].result.ordersPlaced = 0
      /\ PlacesIn(req[r].result.calls) = <<>>

\* such a second cycle has ended: it found the four orders the first one left (two
\* markets, two sides) and placed nothing
C16_Witness ==
  \E r \in Requests :
    /\ LiveDone(r) /\ req[r].result.repeat /\ CleanRun(req[r].result)
    /\ Len(req[r].result.existingOrders) = 4
    /\ req[r].result.ordersPlaced = 0

\* what C17 asks of the calls cs a cycle made on an unpaused side whose snapshot orders
\* are mine
KeptOrReplaced(mine, target, size, cs) ==
  IF FirstWithin(mine, target)
  THEN /\ PlacesIn(cs) = <<>>
       /\ \A i \in 1..Len(cs) : cs[i].id # mine[1].id
  ELSE /\ Len(PlacesIn(cs)) = 1
       /\ PlacesIn(cs)[1].price = target
       /\ PlacesIn(cs)[1].size = size
       /\ IF mine = <<>> THEN cs[1].op = "createAndPostOrder"
          ELSE /\ cs[1].op = "cancelOrder" /\ cs[1].id = mine[1].id
               /\ cs[2].op = "createAndPostOrder"

UnpausedKeptOrReplaced(q, side, mine, cs) ==
  ~PausedAt(q, side) => KeptOrReplaced(mine, TargetAt(q, side), SizeAt(q, side), cs)

\* C17: on every unpaused side of a market a live cycle processed, if the first order
\* of the snapshot is within 0.5 bp of the target no cancel of it and no placement was
\* called; otherwise the first order, if there is one, was cancelled first and then
\* exactly one order was submitted, at the target price and size.
C17_FirstOrderKeptOrReplaced ==
  \A r \in Requests :
    LiveDone(r) =>
      \A m \in ProcessedMarkets(req[r].result) : \A side \in Sides :
        UnpausedKeptOrReplaced(QuoteAt(req[r].result, m), side,
                               MineAt(req[r].result, m, side),
                               CallsOn(req[r].result, m, side))

\* a cycle has ended that found a first BUY at 0.405 against a target of 0.406,
\* cancelled it and submitted the replacement, and kept a SELL it found on target
C17_Witness ==
  \E r \in Requests :
    /\ LiveDone(r)
    /\ ~PausedAt(QuoteAt(req[r].result, 1), "BUY")
    /\ MineAt(req[r].result, 1, "BUY") # <<>>
    /\ MineAt(req[r].result, 1, "BUY")[1].price = 405000
    /\ TargetAt(QuoteAt(req[r].result, 1), "BUY") = 406000
    /\ Len(PlacesIn(CallsOn(req[r].result, 1, "BUY"))) = 1
    /\ MineAt(req[r].result, 2, "SELL") # <<>>
    /\ CallsOn(req[r].result, 2, "SELL") = <<>>

\* what C18 asks of the calls cs a cycle made on a paused side whose snapshot orders
\* are mine
AllCancelled(mine, cs) ==
  /\ Len(cs) = Len(mine)
  /\ \A i \in 1..Len(cs) : cs[i].op = "cancelOrder" /\ cs[i].id = mine[i].id

\* C18: on every paused side of a market a live cycle processed, cancelOrder was
\* called for each order of the snapshot with that token and side, and nothing else:
\* no order was submitted on that side.
C18_PausedSideCancelsAll ==
  \A r \in Requests :
    LiveDone(r) =>
      \A m \in ProcessedMarkets(req[r].result) : \A side \in Sides :
        PausedAt(QuoteAt(req[r].result, m), side) =>
          AllCancelled(MineAt(req[r].result, m, side), CallsOn(req[r].result, m, side))

\* a cycle has ended whose BUY side of market 1 was paused with two BUY orders in the
\* snapshot: both were cancelled
C18_Witness ==
  \E r \in Requests :
    /\ LiveDone(r)
    /\ PausedAt(QuoteAt(req[r].result, 1), "BUY")
    /\ Len(MineAt(req[r].result, 1, "BUY")) = 2
    /\ Len(CallsOn(req[r].result, 1, "BUY")) = 2

\* the orders resting at the venue for a token and side
Resting(m, side) == {o \in venue : o.asset_id = m /\ o.side = side}

\* C19: when a live cycle has run to its end with every venue call succeeding, each
\* side of each market it processed has exactly one resting order if the side is not
\* paused and none if it is, however many rested there before.
C19_OneOrderPerSideAfterCleanCycle ==
  \A r \in Requests :
    (LiveDone(r) /\ CleanRun(req[r].result)) =>
      \A m \in ProcessedMarkets(req[r].result) : \A side \in Sides :
        Cardinality(Resting(m, side)) =
          IF PausedAt(QuoteAt(req[r].result, m), side) THEN 0 ELSE 1

\* a cycle with every call succeeding has ended that found three SELL orders on
\* market 1 and left one
C19_Witness ==
  \E r \in Requests :
    /\ LiveDone(r) /\ CleanRun(req[r].result)
    /\ Len(MineAt(req[r].result, 1, "SELL")) = 3
    /\ Cardinality(Resting(1, "SELL")) = 1

\* the number of venue calls a side takes: one cancel per order if it is paused, one
\* per duplicate if the first order is kept, else one per order and the placement
ExpectedCalls(mine, paused, target) ==
  IF paused THEN Len(mine)
  ELSE IF FirstWithin(mine, target) THEN Len(mine) - 1 ELSE Len(mine) + 1

ExpectedCallsAt(q, side, mine) ==
  ExpectedCalls(mine, PausedAt(q, side), TargetAt(q, side))

\* C20: a live cycle that reached the venue always ends with its final response,
\* whatever calls failed: a failed cancel of an order being replaced is followed by
\* the submission of the replacement, and every side of every processed market got
\* all the calls its reconciliation takes.
C20_FailuresDoNotAbort ==
  \A r \in Requests :
    (req[r].pc = "idle" /\ req[r].result.calls # <<>>) =>
      /\ LiveDone(r)
      /\ \A i \in 1..Len(req[r].result.calls) :
           LET c == req[r].result.calls[i]
           IN (/\ c.op = "cancelOrder" /\ ~c.ok
               /\ ~PausedAt(QuoteAt(req[r].result, c.market), c.side)
               /\ c.id = MineAt(req[r].result, c.market, c.side)[1].id) =>
                /\ i < Len(req[r].result.calls)
                /\ req[r].result.calls[i + 1].op = "createAndPostOrder"
                /\ req[r].result.calls[i + 1].market = c.market
                /\ req[r].result.calls[i + 1].side = c.side
      /\ \A m \in ProcessedMarkets(req[r].result) : \A side \in Sides :
           Len(CallsOn(req[r].result, m, side)) =
             ExpectedCallsAt(QuoteAt(req[r].result, m), side,
                             MineAt(req[r].result, m, side))

\* a cycle has ended in which the cancel of the BUY being replaced on market 1 failed,
\* the replacement was submitted next and failed too, and market 2 was still quoted
C20_Witness ==
  \E r \in Requests :
    /\ LiveDone(r)
    /\ \E i \in 1..(Len(req[r].result.calls) - 1) :
         /\ req[r].result.calls[i].op = "cancelOrder"
         /\ ~req[r].result.calls[i].ok
         /\ req[r].result.calls[i + 1].op = "createAndPostOrder"
         /\ ~req[r].result.calls[i + 1].ok
         /\ req[r].result.calls[i].market = 1
    /\ Len(CallsOn(req[r].result, 2, "BUY")) + Len(CallsOn(req[r].result, 2, "SELL")) = 2

(***************************************************************************)
(* Claims about the trade log (SpecReconcile)                              *)
(***************************************************************************)
\* the cancelOrder and createAndPostOrder calls among calls cs, by their place in cs
VenueActions(cs) == {i \in 1..Len(cs) : cs[i].op \in {"cancelOrder", "createAndPostOrder"}}

\* trades holds a row that records call i
Logged(trades, i) == \E j \in 1..Len(trades) : trades[j].call = i

\* trades holds a row with action "error" that records call i
LoggedAsError(trades, i) ==
  \E j \in 1..Len(trades) : trades[j].call = i /\ trades[j].action = "error"

\* C21 (as claimed): every order placement and every order cancellation a live cycle
\* has made at the venue, whether it replaces an order, removes a duplicate or clears a
\* paused side, has a row in the trade log, written once the call's result was known.
C21_EveryVenueActionLogged ==
  \A r \in Requests :
    /\ \A i \in VenueActions(req[r].calls) : Logged(req[r].trades, i)
    /\ \A i \in VenueActions(req[r].result.calls) : Logged(req[r].result.trades, i)

\* C22 (as claimed): every order placement and every order cancellation of a live cycle
\* that failed has a row with action "error" in the trade log.
C22_EveryFailureLoggedAsError ==
  \A r \in Requests :
    /\ \A i \in VenueActions(req[r].calls) :
         ~req[r].calls[i].ok => LoggedAsError(req[r].trades, i)
    /\ \A i \in VenueActions(req[r].result.calls) :
         ~req[r].result.calls[i].ok => LoggedAsError(req[r].result.trades, i)

(***************************************************************************)
(* Claims about the stored positions                                       *)
(***************************************************************************)
\* C23 (as claimed): the auto-repair step at the start of a run_cycle sets to 0 every
\* stored position whose magnitude exceeds 1.5 * max_position, positive or negative,
\* and leaves every other position as it was.
C23_AutoRepairBothSigns ==
  [][\A r \in Requests :
       (req[r].pc = "repair" /\ req'[r].pc = "check") =>
         \A m \in DOMAIN positions :
           positions'[m] = IF 2 * Abs(positions[m]) > 3 * req[r].cfg.maxPosition
                           THEN 0 ELSE positions[m]]_vars

\* C24: paper cycles run one after another with one configuration keep every stored
\* position within the position limit the positions started within.
C24_PositionsStayWithinLimit ==
  FixedConfig # NoCfg =>
    \A m \in DOMAIN positions : Abs(positions[m]) <= FixedConfig.maxPosition

\* a BUY fill of this cycle has taken a market's stored position to the limit, and the
\* SELL side of the same market and cycle has filled too: its write is served
C24_Witness ==
  /\ req[1].pc = "pnlRead" /\ req[1].side = "SELL" /\ req[1].actualFill > 0
  /\ req[1].current = req[1].cfg.maxPosition
  /\ req[1].current > req[1].skew.netPos
  /\ positions[Head(req[1].selectedMarkets)] = req[1].current - req[1].actualFill

\* C25: the step that applies a simulated fill of size f to a market whose stored
\* position is p leaves p + f (BUY) or p - f (SELL) in the store, which is what the
\* next read of the market's position returns.
C25_FillRoundTrip ==
  [][\A r \in Requests :
       (req[r].pc = "posWrite" /\ req'[r].pc = "pnlRead") =>
         positions'[Head(req[r].selectedMarkets)] =
           positions[Head(req[r].selectedMarkets)]
             + (IF req[r].side = "BUY" THEN req[r].actualFill ELSE -req[r].actualFill)]_vars

\* a SELL fill is being applied after a BUY fill of the same cycle: updateNetPosition
\* has read back the position the BUY fill left, which is not the one the quote was
\* made from
C25_Witness ==
  /\ req[1].pc = "posWrite" /\ req[1].side = "SELL" /\ req[1].actualFill > 0
  /\ req[1].current # req[1].skew.netPos
  /\ req[1].current = positions[Head(req[1].selectedMarkets)]

(***************************************************************************)
(* Claims about paper mode and the catalogue fetch (SpecQuote)             *)
(***************************************************************************)
\* the handler is suspended at a call of the venue's order API
AtVenue(r) == req[r].pc \in {"openOrders", "cancel", "place", "extras"}

\* C26: a paper cycle never fetches the open-order snapshot and never asks the venue to
\* place or cancel an order: it is never suspended at such a call, and when it returns
\* it has made none and has written no live row to the trade log.
C26_PaperNeverCallsVenue ==
  \A r \in Requests :
    /\ (req[r].pc # "idle" /\ req[r].cfg.paperTrading) =>
         ~AtVenue(r) /\ req[r].calls = NoCalls /\ req[r].trades = NoTrades
    /\ (req[r].pc = "idle" /\ req[r].result.cfg.paperTrading) =>
         req[r].result.calls = NoCalls /\ req[r].result.trades = NoTrades

\* a paper cycle has ended that quoted both sides of its market and booked a fill, with
\* no venue call made and no order resting
C26_Witness ==
  \E r \in Requests :
    /\ req[r].pc = "idle" /\ req[r].result.cfg # NoCfg /\ req[r].result.cfg.paperTrading
    /\ req[r].result.ordersPlaced = 2
    /\ dailyRow.trade_count = 1
    /\ req[r].result.calls = NoCalls /\ venue = {} /\ submitted = {}

\* C27: the step in which getMarkets fails (the ordered endpoint and its fallback both
\* answered with an error, or a fetch threw) ends the cycle: the handler returns
\* ordersPlaced = 0 without the breaker flag, having made no venue call and no quote,
\* and the step changes no position, no PnL row and no order; the slot is free for the
\* next run_cycle.
C27_CatalogFailureSkipsCycle ==
  [][\A r \in Requests :
       (/\ req[r].pc = "fetch"
        /\ (req'[r].catalog = "error" \/ req'[r].result.catalog = "error")) =>
         /\ req'[r].pc = "idle"
         /\ req'[r].result.ordersPlaced = 0
         /\ ~req'[r].result.circuitBreaker
         /\ req'[r].result.calls = NoCalls
         /\ req'[r].result.logs = NoLogs
         /\ req'[r].result.processed = <<>>
         /\ UNCHANGED <<positions, dailyRow, venue, submitted>>]_vars

\* a live cycle has returned from a failed catalogue fetch: ordersPlaced is 0, the
\* response carries no totalMarkets, nothing was sent to the venue
C27_Witness ==
  \E r \in Requests :
    /\ req[r].pc = "idle" /\ req[r].result.catalog = "error"
    /\ ~req[r].result.cfg.paperTrading
    /\ req[r].result.ordersPlaced = 0 /\ req[r].result.totalMarkets = -1
    /\ submitted = {}

(***************************************************************************)
(* Claims about scoring and selection (SpecSelect)                         *)
(***************************************************************************)
\* the configurations under which a cycle, running or returned, has scored the catalogue
ScoringConfigs ==
  {req[r].cfg : r \in {x \in Requests : req[x].selection # <<>>}}
  \cup {req[r].result.cfg : r \in {x \in Requests : req[x].result.selection # <<>>}}

Listings == 1..Len(markets)

\* listing b is listing a with a sponsor pool at least as large
SponsorRaised(a, b) ==
  /\ markets[a].sponsorPool <= markets[b].sponsorPool
  /\ [markets[a] EXCEPT !.sponsorPool = markets[b].sponsorPool] = markets[b]

\* listing b is listing a with a 24h volume at least as large
VolumeRaised(a, b) ==
  /\ markets[a].volume24h <= markets[b].volume24h
  /\ [markets[a] EXCEPT !.volume24h = markets[b].volume24h] = markets[b]

\* C28: of two markets that differ in their sponsor pool only, or in their 24h volume
\* only, the one with the larger pool or volume never has the lower score.
C28_ScoreMonotone ==
  \A cfg \in ScoringConfigs : \A a, b \in Listings :
    (SponsorRaised(a, b) \/ VolumeRaised(a, b)) => Score(a, cfg) <= Score(b, cfg)

\* a cycle has ranked a sponsored market above its unsponsored twin that precedes it in
\* the catalogue
C28_Witness ==
  \E r \in Requests :
    /\ req[r].selection = <<2, 1>>
    /\ SponsorRaised(1, 2) /\ markets[1].sponsorPool < markets[2].sponsorPool
    /\ Score(1, req[r].cfg) < Score(2, req[r].cfg)

\* listing a has a top-tier keyword, listing b a tier-2 keyword, and they are alike in
\* everything else
TierTwin(a, b) ==
  /\ markets[a].title = "tier1"
  /\ markets[b].title \in {"crypto", "sports", "macro"}
  /\ [markets[a] EXCEPT !.title = markets[b].title] = markets[b]

\* C29 (as claimed): a Tier-1 market scores strictly higher than a Tier-2 market that is
\* alike in volume, sponsor pool, depth, negative keyword and book penalties.
C29_TierOneAboveTierTwo ==
  \A cfg \in ScoringConfigs : \A a, b \in Listings :
    TierTwin(a, b) => Score(a, cfg) > Score(b, cfg)

\* the members of a sequence of markets
Members(ms) == {ms[i] : i \in 1..Len(ms)}

\* ms is in score-descending order
Descending(ms, cfg) ==
  \A i, j \in 1..Len(ms) : i < j => Score(ms[i], cfg) >= Score(ms[j], cfg)

\* what C30 asks of a cycle's selection and of the markets its loop has reached so far
SelectionInOrder(cfg, selection, processed) ==
  /\ Len(selection) <= cfg.maxMarkets
  /\ \A m \in Members(selection) :
       \A n \in Members(EnrichedMarkets(cfg)) \ Members(selection) :
         Score(m, cfg) >= Score(n, cfg)
  /\ Descending(processed, cfg)
  /\ processed = SubSeq(selection, 1, Len(processed))

\* C30: a cycle selects at most max_markets markets, none of them with a score below
\* that of an enriched market it did not select, and its loop takes them in
\* score-descending order, all of them by the time the cycle returns.
C30_TopMarketsInScoreOrder ==
  \A r \in Requests :
    /\ req[r].selection # <<>> =>
         SelectionInOrder(req[r].cfg, req[r].selection, req[r].processed)
    /\ req[r].result.selection # <<>> =>
         /\ SelectionInOrder(req[r].result.cfg, req[r].result.selection,
                             req[r].result.processed)
         /\ req[r].result.processed = req[r].result.selection

\* a cycle has returned that took the catalogue's second market, which has the higher
\* score, before its first; or, limited to one market, took the second and left out
\* the enriched first
C30_Witness ==
  \E r \in Requests :
    /\ req[r].pc = "idle"
    /\ Score(1, req[r].result.cfg) < Score(2, req[r].result.cfg)
    /\ \/ req[r].result.processed = <<2, 1>>
       \/ /\ req[r].result.cfg.maxMarkets = 1
          /\ req[r].result.processed = <<2>>
          /\ Members(EnrichedMarkets(req[r].result.cfg)) = {1, 2}

(***************************************************************************)
(* Claims about the external oracle, the PnL history and the helpers       *)
(***************************************************************************)
\* the quote a cycle with the oracle off computes for market m at position netPos
QuoteWithoutOracle(m, cfg, netPos) ==
  Quote(m, [cfg EXCEPT !.useExternalOracle = FALSE], netPos)

\* the venue calls and paper lines are those the oracle-less quote decides: a submitted
\* order carries its side's aligned price and size and the side is not paused, a paper
\* line carries its side's price and size and the side is not paused
DecidedWithoutOracle(cfg, calls, logs) ==
  /\ \A i \in 1..Len(calls) :
       calls[i].op = "createAndPostOrder" =>
         LET q == QuoteWithoutOracle(calls[i].market, cfg, positions[calls[i].market])
         IN /\ ~q.skip
            /\ calls[i].side = "BUY" =>
                 ~q.pauseBuy /\ calls[i].price = q.safeBuyPrice /\ calls[i].size = q.buySize
            /\ calls[i].side = "SELL" =>
                 ~q.pauseSell /\ calls[i].price = q.safeSellPrice
                 /\ calls[i].size = q.sellSize
  /\ \A line \in logs :
       LET q == QuoteWithoutOracle(line.market, cfg, line.netPos)
       IN /\ line.side = "BUY" =>
               ~q.pauseBuy /\ line.price = q.buyPrice /\ line.size = q.buySize
          /\ line.side = "SELL" =>
               ~q.pauseSell /\ line.price = q.sellPrice /\ line.size = q.sellSize

\* C31: enabling the external oracle, and whatever price it returns, never changes an
\* order's price, size or side nor a pause decision: the quote of every market, the
\* orders submitted and the paper quotes of a cycle are those of the same cycle with
\* the oracle off.
C31_OracleChangesNoDecision ==
  \A r \in Requests :
    /\ req[r].skew # NoQuote =>
         req[r].skew = QuoteWithoutOracle(Head(req[r].selectedMarkets), req[r].cfg,
                                          req[r].skew.netPos)
    /\ DecidedWithoutOracle(req[r].cfg, req[r].calls, req[r].logs)
    /\ DecidedWithoutOracle(req[r].result.cfg, req[r].result.calls, req[r].result.logs)

\* the oracle is on and has answered with a price for the BTC market, which is quoted and
\* has an order submitted (live) or a quote simulated (paper)
C31_Witness ==
  \E r \in Requests :
    /\ req[r].cfg.useExternalOracle
    /\ req[r].extPrice # NoPrice
    /\ req[r].skew # NoQuote
    /\ \/ \E i \in 1..Len(req[r].calls) :
            /\ req[r].calls[i].op = "createAndPostOrder"
            /\ req[r].calls[i].market = Head(req[r].selectedMarkets)
       \/ \E line \in req[r].logs : line.market = Head(req[r].selectedMarkets)

\* the dates of a sequence of rows
Dates(rows) == {rows[i] : i \in 1..Len(rows)}

\* C32 (as claimed): get_pnl_history returns at most 30 rows and, when more than 30 daily
\* rows exist, the rows returned are those of the 30 most recent dates.
C32_HistoryIsMostRecentThirty ==
  pnlHistory # NoHistory =>
    /\ Len(pnlHistory.rows) <= HistoryLimit
    /\ pnlHistory.of > HistoryLimit =>
         Dates(pnlHistory.rows)
           = Dates(Slice(OrderDescending(BotCumulativePnl(pnlHistory.of)), HistoryLimit))

\* C33 (as claimed): getErrorMessage returns a string for every input value (Error,
\* string, plain object, null, undefined) and never returns undefined.
C33_ErrorMessageIsAString ==
  \A i \in 1..Len(errorLog) : errorLog[i].message.type = "string"

(***************************************************************************)
(* Claims about concurrent position updates (SpecUpserts)                  *)
(***************************************************************************)
\* C34 (as claimed): for any interleaving of updateNetPosition calls on the same market
\* issued by concurrently handled requests, the stored position equals the initial
\* position plus the sum of all applied deltas: no update is lost.
C34_NoPositionUpdateLost ==
  tally.on =>
    \A m \in DOMAIN positions : positions[m] = tally.start[m] + tally.sum[m]

(***************************************************************************)
(* Claims about the size of resting orders under skew (SpecReconcile)      *)
(***************************************************************************)
\* the halved size of a side in skew
HalvedSize(cfg) == Max(2, RoundDiv(cfg.orderSize, 2))

\* C35 (as claimed): in live mode, when a market's position exceeds the skew threshold
\* (p > 0.6 * max_position) and all venue calls succeed, the BUY order resting at the
\* venue after the cycle has the halved size max(2, round(order_size * 0.5));
\* symmetrically for the SELL order when p < -0.6 * max_position.
C35_SkewedSideRestsHalved ==
  \A r \in Requests :
    (LiveDone(r) /\ CleanRun(req[r].result)) =>
      \A m \in ProcessedMarkets(req[r].result) :
        /\ 10 * positions[m] > 6 * req[r].result.cfg.maxPosition =>
             \A o \in Resting(m, "BUY") : o.size = HalvedSize(req[r].result.cfg)
        /\ 10 * positions[m] < -(6 * req[r].result.cfg.maxPosition) =>
             \A o \in Resting(m, "SELL") : o.size = HalvedSize(req[r].result.cfg)

(***************************************************************************)
(* Claims about the venue client (SpecClient)                              *)
(***************************************************************************)
\* C36 (as claimed): within a process the venue client is constructed at most once and
\* the cached instance is never replaced, including when several requests call
\* getTradingClient concurrently before the first construction has finished.
C36_ClientConstructedOnce ==
  /\ clientsBuilt <= 1
  /\ cachedClient \in {NoClient, 1}

(***************************************************************************)
(* Claims about the dashboard's warnings and its circuit breaker           *)
(***************************************************************************)
\* C37: any two overlap-skipped warnings of the dashboard driver are more than 15 seconds
\* apart, so a tick dropped within 15 seconds of the last such warning logs none.
C37_OverlapWarningsFifteenApart ==
  \A i, j \in 1..Len(warnedAt) : i < j => warnedAt[j] - warnedAt[i] > 15

\* two warnings have been logged, the second one twenty seconds after the first (five
\* seconds earlier, at fifteen seconds, a dropped call logged none), and a cycle is in
\* flight
C37_Witness ==
  /\ Len(warnedAt) >= 2
  /\ warnedAt[2] - warnedAt[1] = 20
  /\ cycleInFlightRef

\* C38 (as claimed): after run_cycle has reported circuitBreaker = true to the dashboard
\* (the circuitBreaker state is set, and startBot, which resets it, has not been invoked
\* since), the dashboard's timer is inactive and no further cycle is started, including
\* when the report arrives for the first cycle of startBot.
C38_BreakerStopsDashboard ==
  /\ [](circuitBreaker => ~TimerActive)
  /\ [][circuitBreaker => InFlightCount' <= InFlightCount]_vars

(***************************************************************************)
(* Claims about what a cycle writes to the store                           *)
(***************************************************************************)
\* slot r, running a live cycle, takes this step
LiveStep(r) == ~req[r].cfg.paperTrading /\ req[r].pc # "idle" /\ req'[r] # req[r]

\* C39 (as claimed): a live-mode cycle never changes any stored net position other than
\* by the cycle-start auto-repair, and never changes today's realized_pnl or
\* trade_count, whatever orders it places or cancels.
C39_LiveCycleLeavesStore ==
  [][\A r \in Requests :
       LiveStep(r) =>
         /\ req[r].pc # "repair" => positions' = positions
         /\ dailyRow'.realized_pnl = dailyRow.realized_pnl
         /\ dailyRow'.trade_count = dailyRow.trade_count]_vars

\* C40 (as claimed): no step of the engine decreases the realized_pnl of today's row,
\* and from a day that starts with realized_pnl >= 0 (or with no row) no sequence of
\* cycles latches the circuit breaker.
C40_RealizedPnlNeverDecreases ==
  /\ [][dailyRow'.realized_pnl >= dailyRow.realized_pnl]_vars
  /\ (dailyRow.realized_pnl >= 0) => [](~dailyRow.circuit_breaker_triggered)
====
